---- MODULE Spec2Model ----
(***************************************************************************)
(* A model of media/libstagefright/MPEG4Writer.cpp: the MPEG4Writer (box    *)
(* emission, moov placement, shared file offset and lock) and its Tracks   *)
(* (one producer thread each, index tables, chunk interleaving).           *)
(*                                                                         *)
(* Bytes are not modelled one by one.  A byte store (the file, or the moov *)
(* staging buffer) is a map from a start position to an extent: a run of   *)
(* bytes written by one call, with what the bytes denote.  Overwriting     *)
(* part of an extent leaves a "torn" remainder.                            *)
(***************************************************************************)
EXTENDS Integers, Sequences, FiniteSets, TLC

VARIABLES
    writer,   \* the MPEG4Writer object: its fields, the FILE behind mFile, mLock
    tracks,   \* tracks[t]: the fields of the t-th MPEG4Writer::Track
    thr,      \* thr[t]: the producer thread of track t: position and locals
    src,      \* src[t]: the MediaSource of track t (what it may still deliver)
    ctl,      \* the control thread: position in start()/stop() and locals
    hist      \* history of the run, read only by the properties

vars == <<writer, tracks, thr, src, ctl, hist>>

----------------------------------------------------------------------------
(* Bounds of the explored input space *)

\* buffers one source delivers before it must return a non-OK status
MaxReads == 3

\* tracks added by addSource before start()
MaxTracks == 2

\* buffers the source of a one-track recording delivers
MaxSoloReads == 4

\* the AAC codec-config buffers explored have MinBigConfig + 8 * k bytes,
\* k up to MaxBigConfig
MinBigConfig == 3240

MaxBigConfig == 18

\* buffers a source delivers in the runs that explore the codec configs
MaxCodecReads == 3

\* the codec configs explored there have ShortConfig, LongConfig - 1 or
\* LongConfig bytes
ShortConfig == 20

LongConfig == 105

\* buffers a source delivers in the runs explored under fair scheduling
MaxLiveReads == 2

\* calls of stop() made on one writer
MaxStops == 2

----------------------------------------------------------------------------
(* Program constants *)

DefaultMoovBoxSize == 3840

DefaultInterleaveDurationUs == 500000

Max(a, b) == IF a >= b THEN a ELSE b

\* C++ integer division truncates towards zero
CDiv(a, b) == IF a >= 0 THEN a \div b ELSE -((-a) \div b)

RECURSIVE SumSeq(_)
SumSeq(s) == IF s = <<>> THEN 0 ELSE Head(s) + SumSeq(Tail(s))

----------------------------------------------------------------------------
(* Byte stores *)

\* what a run of bytes denotes
Pad == [kind |-> "pad", tag |-> "", a |-> 0, b |-> 0]

Cell(n, x) == [len |-> n, kind |-> x.kind, tag |-> x.tag, a |-> x.a, b |-> x.b]

Torn(n) == [len |-> n, kind |-> "torn", tag |-> "", a |-> 0, b |-> 0]

EmptyStore == [m |-> <<>>, top |-> 0, last |-> 0]

\* the extents of m that share a byte with [at, at + n)
Hit(m, at, n) == {p \in DOMAIN m : p < at + n /\ at < p + m[p].len}

\* m with the bytes [at, at + n) unset
Clear(m, at, n) ==
    LET hit    == Hit(m, at, n)
        keep   == DOMAIN m \ hit
        lefts  == {p \in hit : p < at}
        rights == {p \in hit : p + m[p].len > at + n}
        rdom   == IF rights # {} THEN {at + n} ELSE {}
    IN  [p \in keep \cup lefts \cup rdom |->
            IF p \in keep THEN m[p]
            ELSE IF p \in lefts THEN Torn(at - p)
            ELSE LET q == CHOOSE q \in rights : TRUE
                 IN  Torn(q + m[q].len - (at + n))]

\* n bytes denoting x stored at position at (fwrite at the stream position, memcpy)
Put(s, at, n, x) ==
    IF n = 0 THEN s
    ELSE IF at >= s.top
    THEN IF /\ x.kind = "pad"
            /\ at = s.top
            /\ s.last \in DOMAIN s.m
            /\ s.m[s.last].kind = "pad"
            /\ s.last + s.m[s.last].len = s.top
         THEN [s EXCEPT !.m[s.last].len = @ + n, !.top = at + n]
         ELSE [m |-> (at :> Cell(n, x)) @@ s.m, top |-> at + n, last |-> at]
    ELSE IF at \in DOMAIN s.m /\ s.m[at].len = n
    THEN [s EXCEPT !.m[at] = Cell(n, x)]
    ELSE [m    |-> (at :> Cell(n, x)) @@ Clear(s.m, at, n),
          top  |-> Max(s.top, at + n),
          last |-> IF at + n >= s.top THEN at ELSE s.last]

\* the first n bytes of store b stored at position at, in one fwrite
Blit(s, at, b, n) ==
    IF n = 0 THEN s
    ELSE LET base == IF at >= s.top THEN s.m ELSE Clear(s.m, at, n)
             from == {q \in DOMAIN b.m : q < n}
             sh   == [p \in {q + at : q \in from} |->
                        IF (p - at) + b.m[p - at].len <= n
                        THEN b.m[p - at]
                        ELSE Torn(n - (p - at))]
         IN  [m    |-> sh @@ base,
              top  |-> Max(s.top, at + n),
              last |-> IF at + n >= s.top THEN b.last + at ELSE s.last]

----------------------------------------------------------------------------
(* MPEG4Writer: primitive emission *)

I8(tag, v)  == [kind |-> "i8",  tag |-> tag, a |-> v % 256, b |-> 0]

I16(tag, v) == [kind |-> "i16", tag |-> tag, a |-> v % 65536, b |-> 0]

\* 32- and 64-bit values stay below 2^31 in every explored run, so they are
\* stored as they are
I32(tag, v) == [kind |-> "i32", tag |-> tag, a |-> v, b |-> 0]

I64(tag, v) == [kind |-> "i64", tag |-> tag, a |-> v, b |-> 0]

Fourcc(cc, id) == [kind |-> "fourcc", tag |-> cc, a |-> id, b |-> 0]

\* the length field of a box: the four bytes before its fourcc
BoxLen(v) == [kind |-> "len", tag |-> "", a |-> v, b |-> 0]

\* the bytes at mMoovBoxBuffer, as the ptr argument of write
MoovBuffer == [kind |-> "moov buffer", tag |-> "", a |-> 0, b |-> 0]

\* the positions of mBoxes left as they are
RebaseNot(boxes, by) == boxes

\* write(): every position of mBoxes made a file position (lines 377-380)
Rebase(boxes, by) == [i \in 1..Len(boxes) |-> boxes[i] + by]

\* the switch to the file that leaves mStreamableFile as it is
SpillStreamable(w, n, x) ==
    [w EXCEPT
       !.mBoxes = [i \in 1..Len(@) |-> @[i] + w.mOffset],
       !.disk = Put(Blit(@, w.mOffset, w.mMoovBoxBuffer, w.mMoovBoxBufferOffset),
                    w.mOffset + w.mMoovBoxBufferOffset, n, x),
       !.fpos = w.mOffset + w.mMoovBoxBufferOffset + n,
       !.mOffset = @ + (n + w.mMoovBoxBufferOffset),
       !.mMoovBoxBuffer = EmptyStore,
       !.mMoovBoxBufferOffset = 0,
       !.mWriteMoovBoxToMemory = FALSE,
       !.switches = @ + 1,
       !.spilled = [open |-> w.openIds, by |-> x.kind]]

\* write() in memory mode when the bytes do not fit: the buffer and then the
\* n bytes go to the file at mOffset (lines 377-388)
Spill(w, n, x) ==
    [w EXCEPT
       !.mBoxes = Rebase(@, w.mOffset),
       !.disk = Put(Blit(@, w.mOffset, w.mMoovBoxBuffer, w.mMoovBoxBufferOffset),
                    w.mOffset + w.mMoovBoxBufferOffset, n, x),
       !.fpos = w.mOffset + w.mMoovBoxBufferOffset + n,
       !.mOffset = @ + (n + w.mMoovBoxBufferOffset),
       !.mMoovBoxBuffer = EmptyStore,
       !.mMoovBoxBufferOffset = 0,
       !.mWriteMoovBoxToMemory = FALSE,
       !.mStreamableFile = FALSE,
       !.switches = @ + 1,
       !.spilled = [open |-> w.openIds, by |-> x.kind]]

\* size_t MPEG4Writer::write(ptr, size, nmemb, stream): n = size * nmemb bytes
\* denoting x
Write(w, n, x) ==
    IF w.mWriteMoovBoxToMemory
    THEN IF 8 + w.mMoovBoxBufferOffset + n > w.mEstimatedMoovBoxSize
         THEN Spill(w, n, x)
         ELSE [w EXCEPT
                 !.mMoovBoxBuffer = Put(@, w.mMoovBoxBufferOffset, n, x),
                 !.mMoovBoxBufferOffset = @ + n]
    ELSE [w EXCEPT
            !.disk = IF x.kind = "moov buffer"
                     THEN Blit(@, w.fpos, w.mMoovBoxBuffer, n)
                     ELSE Put(@, w.fpos, n, x),
            !.fpos = @ + n,
            !.mOffset = @ + n]

\* void MPEG4Writer::beginBox(fourcc); id names this box among all the boxes
\* the writer ever begins
BeginBox(w, cc, id) ==
    Write(Write([w EXCEPT !.mBoxes = Append(@, IF w.mWriteMoovBoxToMemory
                                                THEN w.mMoovBoxBufferOffset
                                                ELSE w.mOffset)],
                4, BoxLen(0)),
          4, Fourcc(cc, id))

\* endBox() in file mode, after writeInt32: mOffset -= 4 and the seek back
SeekBack(w) == [w EXCEPT !.mOffset = @ - 4, !.fpos = w.mOffset - 4]

\* endBox() once the position of the box is popped from mBoxes
PatchLength(w, offset) ==
    IF w.mWriteMoovBoxToMemory
    THEN [w EXCEPT !.mMoovBoxBuffer =
                       Put(@, offset, 4, BoxLen(w.mMoovBoxBufferOffset - offset))]
    ELSE SeekBack(Write([w EXCEPT !.fpos = offset], 4, BoxLen(w.mOffset - offset)))

\* endBox() taking the oldest entry of mBoxes instead of the newest
EndBoxOldest(w) ==
    IF w.mBoxes = <<>>
    THEN [w EXCEPT !.aborted = TRUE]
    ELSE PatchLength([w EXCEPT !.mBoxes = SubSeq(@, 2, Len(@))], w.mBoxes[1])

\* void MPEG4Writer::endBox()
EndBox(w) ==
    IF w.mBoxes = <<>>
    THEN [w EXCEPT !.aborted = TRUE]
    ELSE PatchLength([w EXCEPT !.mBoxes = SubSeq(@, 1, Len(@) - 1)],
                     w.mBoxes[Len(w.mBoxes)])

----------------------------------------------------------------------------
(* Emission scripts: the calls a function makes on the writer, in order *)

B(cc) == [op |-> "begin", cc |-> cc, n |-> 0, x |-> Pad, ok |-> TRUE]

E == [op |-> "end", cc |-> "", n |-> 0, x |-> Pad, ok |-> TRUE]

W(n, x) == [op |-> "write", cc |-> "", n |-> n, x |-> x, ok |-> TRUE]

\* CHECK(cond): aborts the process when cond is false
Chk(cond) == [op |-> "check", cc |-> "", n |-> 0, x |-> Pad, ok |-> cond]

\* k calls of writeInt32 / writeInt16 / writeInt8 with values no property reads
P32(k) == [i \in 1..k |-> W(4, Pad)]

P16(k) == [i \in 1..k |-> W(2, Pad)]

P8(k) == [i \in 1..k |-> W(1, Pad)]

\* The calls are counted as they are made: streamed is the number of bytes the
\* callers have asked to emit (8 for a box header), boxLog[id] the box begun
\* by the id-th beginBox call: its fourcc, the boxes open around it, the count
\* of streamed bytes when it began and, once ended, its byte count.
NoteBegin(w, cc) ==
    [w EXCEPT
       !.boxLog = Append(@, [cc |-> cc, up |-> w.openIds, from |-> w.streamed,
                             need |-> -1]),
       !.openIds = Append(@, Len(w.boxLog) + 1),
       !.streamed = @ + 8]

NoteEnd(w) ==
    IF w.openIds = <<>> THEN w
    ELSE LET id == w.openIds[Len(w.openIds)]
         IN  [w EXCEPT
                !.boxLog[id].need = w.streamed - w.boxLog[id].from,
                !.openIds = SubSeq(@, 1, Len(@) - 1)]

\* the writer after one call of a script
Step(w, o) ==
    CASE o.op = "begin" -> BeginBox(NoteBegin(w, o.cc), o.cc, Len(w.boxLog) + 1)
      [] o.op = "end"   -> EndBox(NoteEnd(w))
      [] o.op = "write" -> Write([w EXCEPT !.streamed = @ + o.n], o.n, o.x)
      [] OTHER          -> IF o.ok THEN w ELSE [w EXCEPT !.aborted = TRUE]

\* the writer after the calls ops[i .. j], each acting on the writer the call
\* before it left; an aborted process makes no further call
RECURSIVE Run(_, _, _, _)
Run(w, ops, i, j) ==
    IF i > j THEN w
    ELSE IF i = j THEN (IF w.aborted THEN w ELSE Step(w, ops[i]))
    ELSE CHOOSE r \in {Run(v, ops, (i + j) \div 2 + 1, j) :
                          v \in {Run(w, ops, i, (i + j) \div 2)}} : TRUE

\* all the calls of a script
Emit(w, ops) ==
    CHOOSE r \in {Run(v[1], v[2], 1, Len(v[2])) : v \in {<<w, ops>>}} : TRUE

----------------------------------------------------------------------------
(* Media types *)

MIME_VIDEO_MPEG4 == "video/mp4v-es"

MIME_VIDEO_H263 == "video/3gpp"

MIME_VIDEO_AVC == "video/avc"

MIME_AUDIO_AMR_NB == "audio/3gpp"

MIME_AUDIO_AMR_WB == "audio/amr-wb"

MIME_AUDIO_AAC == "audio/mp4a-latm"

\* !strncasecmp(mime, "audio/", 6)
IsAudio(mime) == mime \in {MIME_AUDIO_AMR_NB, MIME_AUDIO_AMR_WB, MIME_AUDIO_AAC}

----------------------------------------------------------------------------
(* Emission scripts of stop() and Track::writeTrackHeader *)

\* the table rows of stts, stsc, stss, stsz, co64 as writeInt32/writeInt64 calls
RECURSIVE SttsRows(_)
SttsRows(es) ==
    IF es = <<>> THEN <<>>
    ELSE << W(4, I32("stts.count", Head(es).sampleCount)),
            W(4, I32("stts.duration", Head(es).sampleDuration)) >>
         \o SttsRows(Tail(es))

RECURSIVE StscRows(_)
StscRows(es) ==
    IF es = <<>> THEN <<>>
    ELSE << W(4, I32("stsc.firstChunk", Head(es).firstChunk)),
            W(4, I32("stsc.samplesPerChunk", Head(es).samplesPerChunk)),
            W(4, I32("stsc.id", Head(es).sampleDescriptionId)) >>
         \o StscRows(Tail(es))

StssRows(es) == [i \in 1..Len(es) |-> W(4, I32("stss", es[i]))]

StszRows(infos) == [i \in 1..Len(infos) |-> W(4, I32("stsz", infos[i].size))]

Co64Rows(offs) == [i \in 1..Len(offs) |-> W(8, I64("co64", offs[i]))]

\* stop(): beginBox("moov") and the mvhd box
MoovHeadOps(max_duration, nTracks) ==
    << B("moov"), B("mvhd") >>
    \o P32(3)
    \o << W(4, I32("timescale", 1000)),
          W(4, I32("mvhd.duration", CDiv(max_duration, 1000))) >>
    \o P32(1) \o P16(2) \o P32(2) \o P32(9) \o P32(6)
    \o << W(4, I32("nextTrackID", nTracks + 1)), E >>

\* the edts/elst pair of writeTrackHeader
EdtsOps(startUs) ==
    << B("edts"), W(4, Pad), B("elst"), W(4, Pad),
       W(4, I32("elst.count", 1)),
       W(4, I32("elst.duration", CDiv(startUs, 1000))),
       W(4, I32("elst.mediatime", -1)),
       W(4, I32("elst.rate", 1)),
       E, E >>

\* the esds box of an AAC track
AacEsdsOps(csd) ==
    << B("esds"), W(4, Pad),
       W(1, I8("ES_DescrTag", 3)),
       W(1, I8("esds.len", 23 + csd)) >>
    \o P16(1) \o P8(1)
    \o << W(1, I8("DecoderConfigDescrTag", 4)),
          W(1, I8("esds.len", 15 + csd)) >>
    \o P8(2) \o P16(1) \o P8(1) \o P32(2)
    \o << W(1, I8("DecoderSpecificInfoTag", 5)),
          W(1, I8("esds.len", csd)),
          W(csd, [kind |-> "csd", tag |-> "", a |-> csd, b |-> 0]),
          W(3, Pad), E >>

\* the esds box of an MPEG-4 Part 2 video track
Mp4vEsdsOps(csd) ==
    << B("esds"), W(4, Pad),
       W(1, I8("ES_DescrTag", 3)),
       W(1, I8("esds.len", 23 + csd)) >>
    \o P16(1) \o P8(1)
    \o << W(1, I8("DecoderConfigDescrTag", 4)),
          W(1, I8("esds.len", 15 + csd)) >>
    \o P8(2)
    \o << W(11, Pad),
          W(1, I8("DecoderSpecificInfoTag", 5)),
          W(1, I8("esds.len", csd)),
          W(csd, [kind |-> "csd", tag |-> "", a |-> csd, b |-> 0]),
          W(3, Pad), E >>

\* the stsd box of writeTrackHeader
StsdOps(mime, csd) ==
    << B("stsd") >> \o P32(2)
    \o (IF IsAudio(mime)
        THEN << B(CASE mime = MIME_AUDIO_AMR_NB -> "samr"
                    [] mime = MIME_AUDIO_AMR_WB -> "sawb"
                    [] OTHER -> "mp4a") >>
             \o P32(1) \o P16(2) \o P32(2) \o P16(4) \o P32(1)
             \o (IF mime = MIME_AUDIO_AAC THEN AacEsdsOps(csd) ELSE <<>>)
             \o << E >>
        ELSE << B(CASE mime = MIME_VIDEO_MPEG4 -> "mp4v"
                    [] mime = MIME_VIDEO_H263 -> "s263"
                    [] OTHER -> "avc1") >>
             \o P32(1) \o P16(4) \o P32(3) \o P16(2) \o P32(3) \o P16(1)
             \o << W(32, Pad) >> \o P16(2)
             \o << Chk(23 + csd < 128) >>
             \o (CASE mime = MIME_VIDEO_MPEG4 -> Mp4vEsdsOps(csd)
                   [] mime = MIME_VIDEO_H263 ->
                        << B("d263") >> \o P32(1) \o P8(3) \o << E >>
                   [] OTHER ->
                        << B("avcC"),
                           W(csd, [kind |-> "csd", tag |-> "", a |-> csd, b |-> 0]),
                           E >>)
             \o << E >>)
    \o << E >>

\* void MPEG4Writer::Track::writeTrackHeader(int32_t trackID) of track tr;
\* junk is what a read of a never-written field or list element yields
TrackHeaderOps(tr, trackID, junk) ==
    LET audio   == IsAudio(tr.mMeta)
        startUs == IF tr.startSet THEN tr.mStartTimestampUs ELSE junk
        size1   == IF tr.mSampleInfos = <<>> THEN junk ELSE tr.mSampleInfos[1].size
    IN  << B("trak"), B("tkhd") >>
        \o P32(3)
        \o << W(4, I32("trackID", trackID)), W(4, Pad),
              W(4, I32("tkhd.duration", CDiv(tr.mMaxTimeStampUs, 1000))) >>
        \o P32(2) \o P16(4) \o P32(9) \o P32(2)
        \o << E >>
        \o (IF startUs # 0 THEN EdtsOps(startUs) ELSE <<>>)
        \o << B("mdia"), B("mdhd") >>
        \o P32(4)
        \o << W(4, I32("mdhd.duration", CDiv(tr.mMaxTimeStampUs, 1000))) >>
        \o P16(2)
        \o << E, B("hdlr") >>
        \o P32(2)
        \o << W(4, [kind |-> "subtype", tag |-> IF audio THEN "soun" ELSE "vide",
                    a |-> 0, b |-> 0]) >>
        \o P32(3)
        \o << W(IF audio THEN 13 ELSE 1, Pad), E, B("minf") >>
        \o (IF audio
            THEN << B("smhd") >> \o P32(1) \o P16(2) \o << E >>
            ELSE << B("vmhd") >> \o P32(1) \o P16(4) \o << E >>)
        \o << B("dinf"), B("dref") >> \o P32(2)
        \o << B("url "), W(4, Pad), E, E, E >>
        \o << E >>                                     \* minf
        \o << B("stbl") >>
        \o StsdOps(tr.mMeta, tr.mCodecSpecificDataSize)
        \o << B("stts"), W(4, Pad),
              W(4, I32("stts.n", Len(tr.mSttsTableEntries))) >>
        \o SttsRows(tr.mSttsTableEntries)
        \o << E >>
        \o (IF ~audio
            THEN << B("stss"), W(4, Pad),
                    W(4, I32("stss.n", Len(tr.mStssTableEntries))) >>
                 \o StssRows(tr.mStssTableEntries) \o << E >>
            ELSE <<>>)
        \o << B("stsz"), W(4, Pad),
              W(4, I32("stsz.default", IF tr.mSamplesHaveSameSize THEN size1 ELSE 0)),
              W(4, I32("stsz.n", Len(tr.mSampleInfos))) >>
        \o (IF ~tr.mSamplesHaveSameSize THEN StszRows(tr.mSampleInfos) ELSE <<>>)
        \o << E >>
        \o << B("stsc"), W(4, Pad),
              W(4, I32("stsc.n", Len(tr.mStscTableEntries))) >>
        \o StscRows(tr.mStscTableEntries)
        \o << E >>
        \o << B("co64"), W(4, Pad),
              W(4, I32("co64.n", Len(tr.mChunkOffsets))) >>
        \o Co64Rows(tr.mChunkOffsets)
        \o << E >>
        \o << E, E, E >>                               \* stbl, mdia, trak


----------------------------------------------------------------------------
(* Construction and configuration *)

\* the tracks, by position in mTracks (track IDs are these positions)
TrackIds == 1..Len(tracks)

\* MPEG4Writer::MPEG4Writer(filename) / MPEG4Writer(fd).  Fields the
\* constructor leaves unset are written by start() before they are read.
NewWriter ==
    [ mFile                   |-> "open",
      fpos                    |-> 0,
      disk                    |-> EmptyStore,
      mOffset                 |-> 0,
      mMdatOffset             |-> 0,
      mFreeBoxOffset          |-> 0,
      mEstimatedMoovBoxSize   |-> 0,
      mInterleaveDurationUs   |-> DefaultInterleaveDurationUs,
      mMaxFileSizeLimitBytes  |-> 0,
      mMaxFileDurationLimitUs |-> 0,
      mStartTimestampUs       |-> 0,
      mStreamableFile         |-> TRUE,
      mWriteMoovBoxToMemory   |-> FALSE,
      mMoovBoxBuffer          |-> EmptyStore,
      mMoovBoxBufferOffset    |-> 0,
      mBoxes                  |-> <<>>,
      mLock                   |-> 0,
      aborted                 |-> FALSE,
      streamed                |-> 0,
      boxLog                  |-> <<>>,
      openIds                 |-> <<>>,
      switches                |-> 0,
      spilled                 |-> [open |-> <<>>, by |-> ""] ]

\* MPEG4Writer::Track::Track(owner, source); mStartTimestampUs is not set
\* by the constructor (startSet tells whether the field was ever written)
NewTrack(mime) ==
    [ mMeta                    |-> mime,
      mDone                    |-> FALSE,
      mMaxTimeStampUs          |-> 0,
      mEstimatedTrackSizeBytes |-> 0,
      mSampleInfos             |-> <<>>,
      mSamplesHaveSameSize     |-> TRUE,
      mChunkSamples            |-> <<>>,
      mChunkOffsets            |-> <<>>,
      mStscTableEntries        |-> <<>>,
      mStssTableEntries        |-> <<>>,
      mSttsTableEntries        |-> <<>>,
      mCodecSpecificData       |-> "NULL",
      mCodecSpecificDataSize   |-> 0,
      pic                      |-> 0,
      mGotAllCodecSpecificData |-> FALSE,
      mReachedEOS              |-> FALSE,
      mStartTimestampUs        |-> 0,
      startSet                 |-> FALSE ]

\* the locals of threadEntry as declared, before the loop
NewThread ==
    [ pc                 |-> "none",
      count              |-> 0,
      chunkTimestampUs   |-> 0,
      nChunks            |-> 0,
      nZeroLengthFrames  |-> 0,
      lastTimestamp      |-> 0,
      lastDuration       |-> 0,
      sampleCount        |-> 1,
      previousSampleSize |-> 0,
      info               |-> [size |-> 0, timestampUs |-> 0, isSync |-> 0, len |-> 0],
      next               |-> 0,
      after              |-> "loop",
      released           |-> 0,    \* release() calls on buffers that read() returned
      copies             |-> 0,    \* deep copies made (line 831)
      freed              |-> 0,    \* release() calls on deep copies
      pub                |-> 0,    \* own mEstimatedTrackSizeBytes when mLock was last released
      known              |-> [u \in 1..MaxTracks |-> 0] ]
                                   \* of each track, the mEstimatedTrackSizeBytes read last
                                   \* or made visible by a lock taken since

\* what the properties read of the history of track t
NewHist ==
    [ events  |-> <<>>,    \* the notify() calls of the producer, in order
      syncs   |-> <<>>,    \* is_sync_frame of each accepted sample, in order
      chunks  |-> <<>>,    \* the sample count of each writeOneChunk call, in order
      written |-> 0,       \* samples this track has written to the file
      first   |-> -1,      \* the timestamp the track passed to setStartTimestamp
      stamps  |-> <<>>,    \* the kKeyTime of each accepted sample, in order
      reads   |-> <<>>,    \* the buffers of length > 0 that read() returned, in order
      joins   |-> 0,       \* pthread_join calls on mThread of this track
      sourceStops |-> 0 ]  \* mSource->stop() calls of this track

Init ==
    /\ writer = NewWriter
    /\ tracks = <<>>
    /\ thr = <<>>
    /\ src = <<>>
    /\ ctl = [pc |-> "new", it |-> 1, max_duration |-> 0, k |-> 0, ret |-> "",
              caller |-> "", stops |-> 0]
    /\ hist = <<>>

\* status_t MPEG4Writer::addSource(source), where the source is of media type
\* p.mime and may deliver what p says
AddSourceOf(p) ==
    /\ ctl.pc = "new"
    /\ ~writer.aborted
    /\ Len(tracks) < MaxTracks
    /\ tracks' = Append(tracks, NewTrack(p.mime))
    /\ thr' = Append(thr, NewThread)
    /\ src' = Append(src, p)
    /\ hist' = Append(hist, NewHist)
    /\ UNCHANGED <<writer, ctl>>

\* status_t MPEG4Writer::setInterleaveDuration(durationUs), and the limits
\* of the file size and duration (0: none), before start()
Configure(durationUs, maxBytes, maxUs) ==
    /\ ctl.pc = "new"
    /\ ~writer.aborted
    /\ tracks = <<>>
    /\ writer.mInterleaveDurationUs = DefaultInterleaveDurationUs
    /\ writer.mMaxFileSizeLimitBytes = 0
    /\ writer.mMaxFileDurationLimitUs = 0
    /\ <<durationUs, maxBytes, maxUs>> # <<DefaultInterleaveDurationUs, 0, 0>>
    /\ writer' = [writer EXCEPT !.mInterleaveDurationUs = durationUs,
                                !.mMaxFileSizeLimitBytes = maxBytes,
                                !.mMaxFileDurationLimitUs = maxUs]
    /\ UNCHANGED <<tracks, thr, src, ctl, hist>>

----------------------------------------------------------------------------
(* MPEG4Writer::start() *)

FtypOps ==
    << B("ftyp"),
       W(4, [kind |-> "brand", tag |-> "isom", a |-> 0, b |-> 0]),
       W(4, I32("minor", 0)),
       W(4, [kind |-> "brand", tag |-> "isom", a |-> 0, b |-> 0]),
       E >>

\* start(): mEstimatedMoovBoxSize once the default is applied (lines 170-174)
EstimatedMoovBoxSize(w) ==
    IF w.mEstimatedMoovBoxSize = 0 THEN DefaultMoovBoxSize
    ELSE w.mEstimatedMoovBoxSize

\* start(): the fields reset and the ftyp box (lines 156-166)
StartFtyp(w) ==
    Emit([w EXCEPT !.mStartTimestampUs = 0,
                   !.mStreamableFile = TRUE,
                   !.mWriteMoovBoxToMemory = FALSE,
                   !.mMoovBoxBuffer = EmptyStore,
                   !.mMoovBoxBufferOffset = 0],
         FtypOps)

\* start(): the free box that reserves the place of the moov (lines 168-178)
StartFree(w) ==
    Emit([w EXCEPT !.mFreeBoxOffset = w.mOffset,
                   !.mEstimatedMoovBoxSize = EstimatedMoovBoxSize(w),
                   !.fpos = w.mOffset],
         << Chk(EstimatedMoovBoxSize(w) >= 8),
            W(4, BoxLen(EstimatedMoovBoxSize(w))),
            W(4, Fourcc("free", 0)) >>)

\* start(): write("\x00\x00\x00\x01mdat????????", 16) at mMdatOffset: one
\* call, three fields (lines 180-183)
StartMdat(w) ==
    Emit([w EXCEPT !.mMdatOffset = w.mFreeBoxOffset + w.mEstimatedMoovBoxSize,
                   !.mOffset = w.mFreeBoxOffset + w.mEstimatedMoovBoxSize,
                   !.fpos = w.mFreeBoxOffset + w.mEstimatedMoovBoxSize],
         << W(4, BoxLen(1)),
            W(4, Fourcc("mdat", 0)),
            W(8, [kind |-> "unset", tag |-> "mdat.size", a |-> 0, b |-> 0]) >>)

\* the lines of start() up to the loop that starts the tracks
StartPrelude(w) == StartMdat(StartFree(StartFtyp(w)))

\* status_t MPEG4Writer::Track::start() when mSource->start() returns OK
TrackStart(tr) ==
    [tr EXCEPT !.mDone = FALSE,
               !.mMaxTimeStampUs = 0,
               !.mReachedEOS = FALSE,
               !.mEstimatedTrackSizeBytes = 0]

\* status_t MPEG4Writer::Track::start() when mSource->start() returns an error
TrackStartFails(tr) == [tr EXCEPT !.mDone = TRUE, !.mReachedEOS = TRUE]

\* status_t MPEG4Writer::start() is called: the lines up to the loop that
\* starts the tracks; mFile is not NULL
Start ==
    /\ ctl.pc = "new"
    /\ ~writer.aborted
    /\ writer.mFile # "NULL"
    /\ writer' = StartPrelude(writer)
    /\ ctl' = [ctl EXCEPT !.pc = "starting", !.it = 1]
    /\ UNCHANGED <<tracks, thr, src, hist>>

\* start(): (*it)->start() for the track at the iterator: the source starts
\* and the producer thread is created, or the source fails to start
StartTrack ==
    /\ ctl.pc = "starting"
    /\ ~writer.aborted
    /\ ctl.it <= Len(tracks)
    /\ \/ /\ tracks' = [tracks EXCEPT ![ctl.it] = TrackStart(@)]
          /\ thr' = [thr EXCEPT ![ctl.it].pc = "loop"]
          /\ ctl' = [ctl EXCEPT !.it = @ + 1]
       \/ /\ tracks' = [tracks EXCEPT ![ctl.it] = TrackStartFails(@)]
          /\ thr' = thr
          /\ ctl' = [ctl EXCEPT !.pc = "unwind", !.k = ctl.it, !.it = 1,
                                !.caller = "unwind"]
    /\ UNCHANGED <<writer, src, hist>>

\* start() returning with the tracks before the failed one left running
UnwoundAtOnce(c) == TRUE

\* start(): the loop over the tracks before the failed one is at its end
\* (it2 == it)
Unwound(c) == c.it >= c.k

\* start() returns: OK once every track is started, the error of the track
\* that failed once the tracks before it are stopped
StartReturn ==
    /\ ~writer.aborted
    /\ \/ /\ ctl.pc = "starting"
          /\ ctl.it > Len(tracks)
          /\ ctl' = [ctl EXCEPT !.pc = "running", !.ret = "OK"]
       \/ /\ ctl.pc = "unwind"
          /\ Unwound(ctl)
          /\ ctl' = [ctl EXCEPT !.pc = "failed", !.ret = "ERROR"]
    /\ UNCHANGED <<writer, tracks, thr, src, hist>>


----------------------------------------------------------------------------
(* The sources *)

\* A buffer a source's read() returns with OK: its range_length, whether
\* kKeyIsCodecConfig is set, kKeyTime, kKeyIsSyncFrame and, of its bytes, the
\* offset of the first 00 00 00 01 (sc), of the first 00 00 00 01 at or after
\* offset 4 (pic) and of the first 00 00 01 B6 (vol); -1: there is none.
Buffer(len, cfg, ts, sync, sc, pic, vol) ==
    [len |-> len, cfg |-> cfg, ts |-> ts, sync |-> sync,
     sc |-> sc, pic |-> pic, vol |-> vol]

\* the timestamps the next sample of source s may carry: monotone
NextTs(s) == IF s.ts < 0 THEN s.firsts ELSE {s.ts + g : g \in s.gaps}

\* the buffers source s may deliver next
Deliverable(s) ==
    IF s.left = 0 THEN {}
    ELSE {Buffer(0, FALSE, 0, 0, -1, -1, -1) : z \in {1} \cap (IF s.zero THEN {1} ELSE {})}
         \cup {Buffer(c.len, TRUE, 0, 0, c.sc, c.pic, -1) :
                 c \in (IF s.n = 0 THEN s.cfgs ELSE {})}
         \cup {Buffer(d.len, FALSE, ts, sync, d.sc, -1, d.vol) :
                 d \in s.data, ts \in NextTs(s), sync \in s.syncs}

\* source s after delivering b
Delivered(s, b) ==
    [s EXCEPT !.left = @ - 1,
              !.n = @ + 1,
              !.ts = IF b.len > 0 /\ ~b.cfg THEN b.ts ELSE @]

----------------------------------------------------------------------------
(* MPEG4Writer: limits, start timestamp *)

\* exceedsFileSizeLimit() reads mEstimatedTrackSizeBytes of every track
\* without the lock, while the producer of that track writes it (line 851)
\* without the lock: a data race.  The read yields the current value or the
\* value the track had when its producer last released mLock, and never a
\* value older than one the reading thread has read or that a lock it took
\* has made visible to it.  With no size limit set nothing is read.
Racy == writer.mMaxFileSizeLimitBytes # 0

\* the values the producer of track t may read as mEstimatedTrackSizeBytes
\* of track u
Seen(t, u) ==
    IF u = t \/ ~Racy THEN {tracks[u].mEstimatedTrackSizeBytes}
    ELSE {v \in {thr[u].pub, tracks[u].mEstimatedTrackSizeBytes} :
             v >= thr[t].known[u]}

\* what the producer of track t may read of all tracks when it handles
\* buffer b: a buffer that gets to the limit check
Views(t, b) ==
    IF b.len = 0 \/ b.cfg
    THEN {[u \in TrackIds |-> tracks[u].mEstimatedTrackSizeBytes]}
    ELSE {seen \in [TrackIds -> UNION {Seen(t, u) : u \in TrackIds}] :
             \A u \in TrackIds : seen[u] \in Seen(t, u)}

\* the tracks as the producer of track t, its own track being tr, reads them
ViewOf(t, tr, seen) ==
    [u \in TrackIds |-> IF u = t THEN tr
                        ELSE [tracks[u] EXCEPT !.mEstimatedTrackSizeBytes = seen[u]]]

\* the thread th of track t once it has read seen
Having(th, t, seen) ==
    IF ~Racy THEN th
    ELSE [th EXCEPT !.known = [u \in 1..MaxTracks |->
                                  IF u \in TrackIds /\ u # t THEN seen[u] ELSE @[u]]]

\* the thread th once it has taken mLock: what the threads that released it
\* before had written is visible to it
Acquire(th) ==
    IF ~Racy THEN th
    ELSE [th EXCEPT !.known = [u \in 1..MaxTracks |->
                                  IF u \in TrackIds THEN Max(@[u], thr[u].pub) ELSE @[u]]]

\* the thread th of a track with estimate est once it has released mLock
Release(th, est) == IF ~Racy THEN th ELSE [th EXCEPT !.pub = est]

\* bool MPEG4Writer::exceedsFileSizeLimit()
ExceedsFileSizeLimit(w, trs) ==
    IF w.mMaxFileSizeLimitBytes = 0 THEN FALSE
    ELSE w.mEstimatedMoovBoxSize
           + SumSeq([t \in 1..Len(trs) |-> trs[t].mEstimatedTrackSizeBytes])
         >= w.mMaxFileSizeLimitBytes

\* bool MPEG4Writer::exceedsFileDurationLimit()
ExceedsFileDurationLimit(w, trs) ==
    IF w.mMaxFileDurationLimitUs = 0 THEN FALSE
    ELSE \E t \in 1..Len(trs) : trs[t].mMaxTimeStampUs >= w.mMaxFileDurationLimitUs

\* void MPEG4Writer::setStartTimestamp(timeUs), under mLock
SetStartTimestamp(w, timeUs) ==
    IF w.mStartTimestampUs # 0 THEN w
    ELSE [w EXCEPT !.mStartTimestampUs = timeUs]

----------------------------------------------------------------------------
(* MPEG4Writer::Track: the producer thread *)

IsMpeg4(mime) == mime \in {MIME_VIDEO_MPEG4, MIME_AUDIO_AAC}

IsAvc(mime) == mime = MIME_VIDEO_AVC

\* makeAVCCodecSpecificData keeping the bytes as they are
MakeAVCCodecSpecificDataRaw(tr, size, sc, pic) ==
    [ok |-> TRUE, tr |-> [tr EXCEPT !.mCodecSpecificDataSize = size,
                                    !.mCodecSpecificData = "raw"]]

\* status_t Track::makeAVCCodecSpecificData(data, size) on bytes of length
\* size that start with a start code iff sc = 0 and whose next start code is
\* at pic: the track after it, and whether it returned OK
MakeAVCCodecSpecificData(tr, size, sc, pic) ==
    IF tr.mCodecSpecificData # "NULL" THEN [ok |-> FALSE, tr |-> tr]
    ELSE IF size < 4 \/ sc # 0 THEN [ok |-> FALSE, tr |-> tr]
    ELSE LET picParamOffset == IF pic >= 4 /\ pic + 3 < size THEN pic ELSE size
         IN  IF picParamOffset + 3 >= size THEN [ok |-> FALSE, tr |-> tr]
             ELSE LET seqParamSetLength == picParamOffset - 4
                      picParamSetLength == size - picParamOffset - 4
                  IN  [ok |-> TRUE,
                       tr |-> [tr EXCEPT
                                 !.mCodecSpecificDataSize =
                                     6 + 1 + seqParamSetLength + 2 + picParamSetLength + 2,
                                 !.mCodecSpecificData = "avcC"]]

\* the result of one pass through the loop body up to the limit checks
Pass(tr, th, ev, abort) == [tr |-> tr, th |-> th, ev |-> ev, abort |-> abort]

\* the limits checked and the event raised, the sample kept all the same
AcceptOverLimit(t, tr, th0, b, len, seen) ==
    LET avc     == IsAvc(tr.mMeta)
        copyLen == IF avc /\ len >= 4 /\ b.sc = 0 THEN len - 4 ELSE len
        size    == IF avc THEN copyLen + 4 ELSE copyLen
        tr1     == [tr EXCEPT !.mEstimatedTrackSizeBytes = @ + size]
        trs1    == ViewOf(t, tr1, seen)
        th      == Having(th0, t, seen)
        info    == [size |-> size, timestampUs |-> b.ts, isSync |-> b.sync,
                    len |-> copyLen]
    IN  Pass(tr1,
             [th EXCEPT !.info = info,
                        !.copies = @ + 1,
                        !.pc = IF tr1.mSampleInfos = <<>> THEN "start" ELSE "index"],
             IF ExceedsFileSizeLimit(writer, trs1)
             THEN <<"INFO_MAX_FILESIZE_REACHED">>
             ELSE IF ExceedsFileDurationLimit(writer, trs1)
             THEN <<"INFO_MAX_DURATION_REACHED">>
             ELSE <<>>,
             FALSE)

\* the copy is made, sized and checked against the limits (lines 829-859);
\* len is the range_length of the buffer as it is by then
Accept(t, tr, th0, b, len, seen) ==
    LET avc     == IsAvc(tr.mMeta)
        copyLen == IF avc /\ len >= 4 /\ b.sc = 0 THEN len - 4 ELSE len
        size    == IF avc THEN copyLen + 4 ELSE copyLen
        tr1     == [tr EXCEPT !.mEstimatedTrackSizeBytes = @ + size]
        trs1    == ViewOf(t, tr1, seen)
        th      == Having(th0, t, seen)
        info    == [size |-> size, timestampUs |-> b.ts, isSync |-> b.sync,
                    len |-> copyLen]
    IN  IF ExceedsFileSizeLimit(writer, trs1)
        THEN Pass(tr1, [th EXCEPT !.pc = "eos", !.copies = @ + 1],
                  <<"INFO_MAX_FILESIZE_REACHED">>, FALSE)
        ELSE IF ExceedsFileDurationLimit(writer, trs1)
        THEN Pass(tr1, [th EXCEPT !.pc = "eos", !.copies = @ + 1],
                  <<"INFO_MAX_DURATION_REACHED">>, FALSE)
        ELSE Pass(tr1,
                  [th EXCEPT !.info = info,
                             !.copies = @ + 1,
                             !.pc = IF tr1.mSampleInfos = <<>> THEN "start" ELSE "index"],
                  <<>>, FALSE)

\* one pass through the body of the loop of threadEntry for the buffer b that
\* read() returned, up to the limit checks (lines 712-859)
LoopBody(t, b, seen) ==
    LET tr    == tracks[t]
        mime  == tr.mMeta
        th    == [thr[t] EXCEPT !.count = @ + 1, !.released = @ + 1]
        again == [th EXCEPT !.pc = "loop"]
    IN  IF b.len = 0
        THEN Pass(tr, [thr[t] EXCEPT !.nZeroLengthFrames = @ + 1, !.released = @ + 1],
                  <<>>, FALSE)
        ELSE IF b.cfg
        THEN IF tr.mGotAllCodecSpecificData THEN Pass(tr, th, <<>>, TRUE)
             ELSE IF IsAvc(mime)
             THEN LET r == MakeAVCCodecSpecificData(tr, b.len, b.sc, b.pic)
                  IN  Pass([r.tr EXCEPT !.mGotAllCodecSpecificData = TRUE],
                           again, <<>>, ~r.ok)
             ELSE IF IsMpeg4(mime)
             THEN Pass([tr EXCEPT !.mCodecSpecificDataSize = b.len,
                                  !.mCodecSpecificData = "copy",
                                  !.mGotAllCodecSpecificData = TRUE],
                       again, <<>>, FALSE)
             ELSE Pass([tr EXCEPT !.mGotAllCodecSpecificData = TRUE],
                       again, <<>>, FALSE)
        ELSE IF /\ ~tr.mGotAllCodecSpecificData
                /\ th.count = 1
                /\ IsMpeg4(mime)
                /\ tr.mCodecSpecificData = "NULL"
        THEN LET offset == IF b.vol >= 0 /\ b.vol + 3 < b.len THEN b.vol ELSE b.len
                 tr1    == [tr EXCEPT !.mCodecSpecificDataSize = offset,
                                      !.mCodecSpecificData = "copy"]
             IN  IF b.len = offset
                 THEN Pass(tr1, again, <<>>, FALSE)
                 ELSE Accept(t, [tr1 EXCEPT !.mGotAllCodecSpecificData = TRUE],
                             th, b, b.len - offset, seen)
        ELSE IF ~tr.mGotAllCodecSpecificData /\ IsAvc(mime) /\ th.count < 3
        THEN IF ~(th.count = 2 \/ tr.mCodecSpecificData = "NULL")
             THEN Pass(tr, th, <<>>, TRUE)
             ELSE LET size == tr.mCodecSpecificDataSize + b.len + 4
                      \* the first start code after the leading one
                      pic  == IF tr.mCodecSpecificData = "NULL"
                              THEN (IF b.sc >= 0 THEN 4 + b.sc ELSE 4 + b.len)
                              ELSE tr.pic
                      raw  == [tr EXCEPT !.mCodecSpecificDataSize = size,
                                         !.mCodecSpecificData = "raw",
                                         !.pic = pic]
                  IN  IF th.count = 2
                      THEN LET r == MakeAVCCodecSpecificData(
                                        [raw EXCEPT !.mCodecSpecificData = "NULL",
                                                    !.mCodecSpecificDataSize = 0],
                                        size, 0, pic)
                           IN  Pass([r.tr EXCEPT !.mGotAllCodecSpecificData = r.ok],
                                    again, <<>>, ~r.ok)
                      ELSE Pass(raw, again, <<>>, FALSE)
        ELSE Accept(t, tr, th, b, b.len, seen)

\* while (!mDone && mSource->read(&buffer) == OK) and the body up to the limit
\* checks, for one buffer
Read(t) ==
    /\ thr[t].pc = "loop"
    /\ ~writer.aborted
    /\ IF tracks[t].mDone
       THEN /\ thr' = [thr EXCEPT ![t].pc = "eos"]
            /\ UNCHANGED <<writer, tracks, src, hist>>
       ELSE \/ \* read() returns a status other than OK
               /\ thr' = [thr EXCEPT ![t].pc = "eos"]
               /\ UNCHANGED <<writer, tracks, src, hist>>
            \/ \E b \in Deliverable(src[t]) : \E seen \in Views(t, b) :
                 LET r == LoopBody(t, b, seen)
                 IN  /\ src' = [src EXCEPT ![t] = Delivered(src[t], b)]
                     /\ tracks' = [tracks EXCEPT ![t] = r.tr]
                     /\ thr' = [thr EXCEPT ![t] = r.th]
                     /\ hist' = [hist EXCEPT
                                   ![t].events = @ \o r.ev,
                                   ![t].syncs = IF r.th.pc \in {"start", "index"}
                                                THEN Append(@, b.sync) ELSE @,
                                   ![t].stamps = IF r.th.pc \in {"start", "index"}
                                                 THEN Append(@, b.ts) ELSE @,
                                   ![t].reads = IF b.len > 0
                                                THEN Append(@, [len |-> b.len,
                                                                cfg |-> b.cfg,
                                                                sc |-> b.sc,
                                                                vol |-> b.vol])
                                                ELSE @]
                     /\ writer' = [writer EXCEPT !.aborted = r.abort]
    /\ UNCHANGED ctl


\* mOwner->setStartTimestamp(timestampUs) for the first sample (line 870)
SetStart(t) ==
    /\ thr[t].pc = "start"
    /\ ~writer.aborted
    /\ writer.mLock = 0
    /\ writer' = SetStartTimestamp(writer, thr[t].info.timestampUs)
    /\ thr' = [thr EXCEPT ![t] = Release(Acquire([@ EXCEPT !.pc = "getstart"]),
                                         tracks[t].mEstimatedTrackSizeBytes)]
    /\ hist' = [hist EXCEPT ![t].first = thr[t].info.timestampUs]
    /\ UNCHANGED <<tracks, src, ctl>>

\* mStartTimestampUs = timestampUs - mOwner->getStartTimestamp() (line 871)
GetStart(t) ==
    /\ thr[t].pc = "getstart"
    /\ ~writer.aborted
    /\ writer.mLock = 0
    /\ tracks' = [tracks EXCEPT
                    ![t].mStartTimestampUs =
                        thr[t].info.timestampUs - writer.mStartTimestampUs,
                    ![t].startSet = TRUE]
    /\ thr' = [thr EXCEPT ![t] = Release(Acquire([@ EXCEPT !.pc = "index"]),
                                         tracks[t].mEstimatedTrackSizeBytes)]
    /\ UNCHANGED <<writer, src, ctl, hist>>

StscTableEntry(chunk, samples, id) ==
    [firstChunk |-> chunk, samplesPerChunk |-> samples, sampleDescriptionId |-> id]

SttsTableEntry(count, duration) ==
    [sampleCount |-> count, sampleDuration |-> duration]

\* the number of the sample taken before the sample is in mSampleInfos
StssBefore(entries, isSync, size) ==
    IF isSync # 0 THEN Append(entries, size - 1) ELSE entries

\* mStssTableEntries after a sample with is_sync_frame isSync is pushed to
\* mSampleInfos, now of size size (lines 899-901)
StssAfter(entries, isSync, size) ==
    IF isSync # 0 THEN Append(entries, size) ELSE entries

\* the index tables and the chunk decision for an accepted sample (lines
\* 874-926): the track and the thread after it, the thread at "lock" when
\* writeOneChunk is called
IndexSample(tr, th, interleaveDurationUs) ==
    LET info      == th.info
        timestamp == CDiv(info.timestampUs + 500, 1000)
        infos     == Append(tr.mSampleInfos, [size |-> info.size, timestamp |-> timestamp])
        differs   == th.lastDuration # timestamp - th.lastTimestamp
        stts      == IF Len(infos) > 2 /\ differs
                     THEN Append(tr.mSttsTableEntries,
                                 SttsTableEntry(th.sampleCount, th.lastDuration))
                     ELSE tr.mSttsTableEntries
        count     == IF Len(infos) > 2
                     THEN (IF differs THEN 1 ELSE th.sampleCount + 1)
                     ELSE th.sampleCount
        same      == IF tr.mSamplesHaveSameSize
                     THEN ~(Len(infos) >= 2 /\ th.previousSampleSize # info.size)
                     ELSE FALSE
        prev      == IF tr.mSamplesHaveSameSize THEN info.size ELSE th.previousSampleSize
        stss      == StssAfter(tr.mStssTableEntries, info.isSync, Len(infos))
        chunk     == Append(tr.mChunkSamples, [len |-> info.len, seq |-> Len(infos)])
        tr1       == [tr EXCEPT
                        !.mMaxTimeStampUs = Max(@, info.timestampUs),
                        !.mSampleInfos = infos,
                        !.mSttsTableEntries = stts,
                        !.mSamplesHaveSameSize = same,
                        !.mStssTableEntries = stss,
                        !.mChunkSamples = chunk]
        th1       == [th EXCEPT
                        !.sampleCount = count,
                        !.previousSampleSize = prev,
                        !.lastDuration = timestamp - th.lastTimestamp,
                        !.lastTimestamp = timestamp,
                        !.pc = "loop",
                        !.after = "loop"]
    IN  IF interleaveDurationUs = 0
        THEN [tr |-> [tr1 EXCEPT !.mStscTableEntries =
                                     Append(@, StscTableEntry(th.nChunks + 1, 1, 1))],
              th |-> [th1 EXCEPT !.nChunks = @ + 1, !.pc = "lock"]]
        ELSE IF th.chunkTimestampUs = 0
        THEN [tr |-> tr1, th |-> [th1 EXCEPT !.chunkTimestampUs = info.timestampUs]]
        ELSE IF info.timestampUs - th.chunkTimestampUs > interleaveDurationUs
        THEN LET nChunks == th.nChunks + 1
                 entries == tr.mStscTableEntries
                 push    == \/ nChunks = 1
                            \/ entries[Len(entries)].samplesPerChunk # Len(chunk)
             IN  [tr |-> [tr1 EXCEPT !.mStscTableEntries =
                                         IF push
                                         THEN Append(@, StscTableEntry(nChunks, Len(chunk), 1))
                                         ELSE @],
                  th |-> [th1 EXCEPT !.nChunks = nChunks,
                                     !.chunkTimestampUs = info.timestampUs,
                                     !.pc = "lock"]]
        ELSE [tr |-> tr1, th |-> th1]

\* the rest of the loop body for an accepted sample
Index(t) ==
    /\ thr[t].pc = "index"
    /\ ~writer.aborted
    /\ LET r == IndexSample(tracks[t], thr[t], writer.mInterleaveDurationUs)
       IN  /\ tracks' = [tracks EXCEPT ![t] = r.tr]
           /\ thr' = [thr EXCEPT ![t] = r.th]
    /\ UNCHANGED <<writer, src, ctl, hist>>

\* writeOneChunk entered without waiting for the lock
LockUnguarded(t) ==
    /\ thr[t].pc = "lock"
    /\ ~writer.aborted
    /\ writer' = [writer EXCEPT !.mLock = t]
    /\ thr' = [thr EXCEPT ![t].pc = "flush", ![t].next = 1]
    /\ hist' = [hist EXCEPT ![t].chunks = Append(@, Len(tracks[t].mChunkSamples))]
    /\ UNCHANGED <<tracks, src, ctl>>

\* writeOneChunk: mOwner->lock()
Lock(t) ==
    /\ thr[t].pc = "lock"
    /\ ~writer.aborted
    /\ writer.mLock = 0
    /\ writer' = [writer EXCEPT !.mLock = t]
    /\ thr' = [thr EXCEPT ![t] = Acquire([@ EXCEPT !.pc = "flush", !.next = 1])]
    /\ hist' = [hist EXCEPT ![t].chunks = Append(@, Len(tracks[t].mChunkSamples))]
    /\ UNCHANGED <<tracks, src, ctl>>

\* addSample_l returning the offset after the sample
AddSample_lAfter(w, t, buffer) ==
    [w |-> [w EXCEPT
              !.disk = Put(@, w.fpos, buffer.len,
                           [kind |-> "sample", tag |-> "", a |-> t, b |-> buffer.seq]),
              !.fpos = @ + buffer.len,
              !.mOffset = @ + buffer.len],
     old_offset |-> w.mOffset + buffer.len]

\* addSample_l leaving mOffset as it is
AddSample_lUncounted(w, t, buffer) ==
    [w |-> [w EXCEPT
              !.disk = Put(@, w.fpos, buffer.len,
                           [kind |-> "sample", tag |-> "", a |-> t, b |-> buffer.seq]),
              !.fpos = @ + buffer.len],
     old_offset |-> w.mOffset]

\* off_t MPEG4Writer::addSample_l(buffer), the buffer being sample seq of
\* track t: the writer after it and the offset returned
AddSample_l(w, t, buffer) ==
    [w |-> [w EXCEPT
              !.disk = Put(@, w.fpos, buffer.len,
                           [kind |-> "sample", tag |-> "", a |-> t, b |-> buffer.seq]),
              !.fpos = @ + buffer.len,
              !.mOffset = @ + buffer.len],
     old_offset |-> w.mOffset]

\* off_t MPEG4Writer::addLengthPrefixedSample_l(buffer), USE_NALLEN_FOUR
AddLengthPrefixedSample_l(w, t, buffer) ==
    [w |-> [w EXCEPT
              !.disk = Put(Put(@, w.fpos, 4,
                               [kind |-> "nal", tag |-> "", a |-> buffer.len,
                                b |-> buffer.seq]),
                           w.fpos + 4, buffer.len,
                           [kind |-> "sample", tag |-> "", a |-> t, b |-> buffer.seq]),
              !.fpos = @ + 4 + buffer.len,
              !.mOffset = @ + (buffer.len + 4)],
     old_offset |-> w.mOffset]

\* writeOneChunk: one turn of the loop over mChunkSamples
FlushSample(t) ==
    /\ thr[t].pc = "flush"
    /\ ~writer.aborted
    /\ thr[t].next <= Len(tracks[t].mChunkSamples)
    /\ LET buffer == tracks[t].mChunkSamples[thr[t].next]
           r      == IF IsAvc(tracks[t].mMeta)
                     THEN AddLengthPrefixedSample_l(writer, t, buffer)
                     ELSE AddSample_l(writer, t, buffer)
       IN  /\ writer' = r.w
           /\ tracks' = IF thr[t].next = 1
                        THEN [tracks EXCEPT ![t].mChunkOffsets = Append(@, r.old_offset)]
                        ELSE tracks
    /\ thr' = [thr EXCEPT ![t].next = @ + 1]
    /\ hist' = [hist EXCEPT ![t].written = @ + 1]
    /\ UNCHANGED <<src, ctl>>

\* writeOneChunk returning with the writer lock still held
UnlockNot(t) ==
    /\ thr[t].pc = "flush"
    /\ ~writer.aborted
    /\ thr[t].next > Len(tracks[t].mChunkSamples)
    /\ tracks' = [tracks EXCEPT ![t].mChunkSamples = <<>>]
    /\ thr' = [thr EXCEPT ![t].pc = thr[t].after,
                          ![t].freed = @ + Len(tracks[t].mChunkSamples)]
    /\ UNCHANGED <<writer, src, ctl, hist>>

\* writeOneChunk: mOwner->unlock(), the samples released and the list cleared
Unlock(t) ==
    /\ thr[t].pc = "flush"
    /\ ~writer.aborted
    /\ thr[t].next > Len(tracks[t].mChunkSamples)
    /\ writer' = [writer EXCEPT !.mLock = 0]
    /\ tracks' = [tracks EXCEPT ![t].mChunkSamples = <<>>]
    /\ thr' = [thr EXCEPT ![t] = Release([@ EXCEPT !.pc = thr[t].after,
                                                   !.freed = @ + Len(tracks[t].mChunkSamples)],
                                         tracks[t].mEstimatedTrackSizeBytes)]
    /\ UNCHANGED <<src, ctl, hist>>

\* the last chunk flushed without an stsc entry of its own
EosUnlisted(t) ==
    /\ thr[t].pc = "eos"
    /\ ~writer.aborted
    /\ hist' = [hist EXCEPT ![t].events =
                   IF tracks[t].mSampleInfos = <<>>
                   THEN Append(@, "INFO_STOP_PREMATURELY") ELSE @]
    /\ IF tracks[t].mChunkSamples # <<>>
       THEN /\ tracks' = [tracks EXCEPT ![t].mStscTableEntries =
                            IF @ = <<>>
                            THEN <<StscTableEntry(thr[t].nChunks + 1,
                                                  Len(tracks[t].mChunkSamples), 1)>>
                            ELSE @]
            /\ thr' = [thr EXCEPT ![t].nChunks = @ + 1,
                                  ![t].pc = "lock",
                                  ![t].after = "stts"]
       ELSE /\ tracks' = tracks
            /\ thr' = [thr EXCEPT ![t].pc = "stts"]
    /\ UNCHANGED <<writer, src, ctl>>

\* after the loop: the notification and the last chunk (lines 930-940)
Eos(t) ==
    /\ thr[t].pc = "eos"
    /\ ~writer.aborted
    /\ hist' = [hist EXCEPT ![t].events =
                   IF tracks[t].mSampleInfos = <<>>
                   THEN Append(@, "INFO_STOP_PREMATURELY") ELSE @]
    /\ IF tracks[t].mChunkSamples # <<>>
       THEN /\ tracks' = [tracks EXCEPT ![t].mStscTableEntries =
                            Append(@, StscTableEntry(thr[t].nChunks + 1,
                                                     Len(tracks[t].mChunkSamples), 1))]
            /\ thr' = [thr EXCEPT ![t].nChunks = @ + 1,
                                  ![t].pc = "lock",
                                  ![t].after = "stts"]
       ELSE /\ tracks' = tracks
            /\ thr' = [thr EXCEPT ![t].pc = "stts"]
    /\ UNCHANGED <<writer, src, ctl>>

\* the closing stts entry without the count for the last sample
CloseSttsShort(tr, th) ==
    LET lastDuration == IF Len(tr.mSampleInfos) = 1 THEN 0 ELSE th.lastDuration
    IN  [tr |-> [tr EXCEPT !.mSttsTableEntries =
                               Append(@, SttsTableEntry(th.sampleCount, lastDuration)),
                           !.mReachedEOS = TRUE],
         th |-> [th EXCEPT !.lastDuration = lastDuration,
                           !.pc = "exited"]]

\* the closing stts entry (lines 942-952)
CloseStts(tr, th) ==
    LET lastDuration == IF Len(tr.mSampleInfos) = 1 THEN 0 ELSE th.lastDuration
        sampleCount  == IF Len(tr.mSampleInfos) = 1
                        THEN th.sampleCount ELSE th.sampleCount + 1
    IN  [tr |-> [tr EXCEPT !.mSttsTableEntries =
                               Append(@, SttsTableEntry(sampleCount, lastDuration)),
                           !.mReachedEOS = TRUE],
         th |-> [th EXCEPT !.lastDuration = lastDuration,
                           !.sampleCount = sampleCount,
                           !.pc = "exited"]]

\* the end of threadEntry
Finish(t) ==
    /\ thr[t].pc = "stts"
    /\ ~writer.aborted
    /\ LET r == CloseStts(tracks[t], thr[t])
       IN  /\ tracks' = [tracks EXCEPT ![t] = r.tr]
           /\ thr' = [thr EXCEPT ![t] = r.th]
    /\ UNCHANGED <<writer, src, ctl, hist>>


----------------------------------------------------------------------------
(* MPEG4Writer::stop() *)

\* values a read of memory that was never written may yield
Junk == {0, 3000}

\* void MPEG4Writer::stop() is called, after start() returned OK or after a
\* stop() that returned: it returns at once when mFile is NULL
Stop ==
    /\ ctl.pc \in {"running", "closed"}
    /\ ~writer.aborted
    /\ ctl.stops < MaxStops
    /\ ctl' = IF writer.mFile = "NULL"
              THEN [ctl EXCEPT !.stops = @ + 1]
              ELSE [ctl EXCEPT !.pc = "signal", !.it = 1, !.max_duration = 0,
                               !.caller = "signal", !.stops = @ + 1]
    /\ UNCHANGED <<writer, tracks, thr, src, hist>>

\* int64_t MPEG4Writer::Track::getDurationUs() const
GetDurationUs(tr) == tr.mMaxTimeStampUs

\* the lines of the calling loop after (*it)->stop() has returned: the
\* first loop of stop(), or the loop of start() over the tracks before the
\* one that failed
AfterTrackStop(c, tr) ==
    [c EXCEPT !.pc = c.caller,
              !.it = @ + 1,
              !.max_duration = IF c.caller = "signal"
                               THEN Max(@, GetDurationUs(tr)) ELSE @]

\* void MPEG4Writer::Track::stop() of the track at the iterator, up to
\* pthread_join
TrackStop ==
    /\ \/ ctl.pc = "signal" /\ ctl.it <= Len(tracks)
       \/ ctl.pc = "unwind" /\ ~Unwound(ctl)
    /\ ~writer.aborted
    /\ IF tracks[ctl.it].mDone
       THEN /\ ctl' = AfterTrackStop(ctl, tracks[ctl.it])
            /\ tracks' = tracks
            /\ hist' = hist
       ELSE /\ tracks' = [tracks EXCEPT ![ctl.it].mDone = TRUE]
            /\ ctl' = [ctl EXCEPT !.pc = "join"]
            /\ hist' = [hist EXCEPT ![ctl.it].joins = @ + 1]
    /\ UNCHANGED <<writer, thr, src>>

\* pthread_join returning while the thread still runs
JoinableAtOnce(t) == TRUE

\* whether pthread_join on the thread of track t returns
Joinable(t) == thr[t].pc = "exited"

\* Track::stop(): pthread_join returns and the source is stopped
TrackJoin ==
    /\ ctl.pc = "join"
    /\ ~writer.aborted
    /\ Joinable(ctl.it)
    /\ src' = [src EXCEPT ![ctl.it].left = 0]
    /\ ctl' = AfterTrackStop(ctl, tracks[ctl.it])
    /\ hist' = [hist EXCEPT ![ctl.it].sourceStops = @ + 1]
    /\ UNCHANGED <<writer, tracks, thr>>

\* void MPEG4Writer::stop() is called after start() returned an error (by
\* the client, or by ~MPEG4Writer): mFile is not NULL, so the loop over all
\* of mTracks is entered
StopFailed ==
    /\ ctl.pc = "failed"
    /\ ~writer.aborted
    /\ ctl.stops < MaxStops
    /\ writer.mFile # "NULL"
    /\ ctl' = [ctl EXCEPT !.pc = "signal", !.it = 1, !.max_duration = 0,
                          !.caller = "signal", !.stops = @ + 1]
    /\ UNCHANGED <<writer, tracks, thr, src, hist>>

\* Track::stop() of a track whose start() was never called: pthread_join is
\* handed mThread, which no pthread_create has written.  The call may
\* return an error (the result is not looked at, mSource->stop() follows),
\* or the process may die in it; it may also never return, which is no
\* step at all.
TrackJoinUnstarted ==
    /\ ctl.pc = "join"
    /\ ~writer.aborted
    /\ thr[ctl.it].pc = "none"
    /\ \/ /\ src' = [src EXCEPT ![ctl.it].left = 0]
          /\ ctl' = AfterTrackStop(ctl, tracks[ctl.it])
          /\ hist' = [hist EXCEPT ![ctl.it].sourceStops = @ + 1]
          /\ writer' = writer
       \/ /\ writer' = [writer EXCEPT !.aborted = TRUE]
          /\ UNCHANGED <<src, ctl, hist>>
    /\ UNCHANGED <<tracks, thr>>

\* the size of the mdat box taken to be that of its payload
PatchMdatPayload(w) ==
    LET size == w.mOffset - w.mMdatOffset - 16
    IN  [w EXCEPT !.disk = Put(@, w.mMdatOffset + 8, 8, I64("mdat.size", size)),
                  !.fpos = w.mOffset]

\* stop(): the size of the mdat box fixed up (lines 218-223)
PatchMdat(w) ==
    LET size == w.mOffset - w.mMdatOffset
    IN  [w EXCEPT !.disk = Put(@, w.mMdatOffset + 8, 8, I64("mdat.size", size)),
                  !.fpos = w.mOffset]

\* stop(): the moov staged in memory from here on (lines 226-229)
StageMoov(w) ==
    [w EXCEPT !.mWriteMoovBoxToMemory = TRUE,
              !.mMoovBoxBuffer = EmptyStore,
              !.mMoovBoxBufferOffset = 0]

\* stop(): lines 218-261, once every track is stopped
WriteMoovHead ==
    /\ ctl.pc = "signal"
    /\ ~writer.aborted
    /\ ctl.it > Len(tracks)
    /\ writer' = Emit(StageMoov(PatchMdat(writer)),
                      MoovHeadOps(ctl.max_duration, Len(tracks)))
    /\ ctl' = [ctl EXCEPT !.pc = "trak", !.it = 1]
    /\ UNCHANGED <<tracks, thr, src, hist>>

\* whether the stsz box takes its default sample size from
\* mSampleInfos.begin() with the list empty
ReadsEmptyList(tr) == tr.mSamplesHaveSameSize /\ tr.mSampleInfos = <<>>

\* whether writeTrackHeader reads a field or a list element never written
ReadsJunk(tr) ==
    \/ ~tr.startSet
    \/ ReadsEmptyList(tr)

\* stop(): (*it)->writeTrackHeader(id) for the track at the iterator
WriteTrackHeader ==
    /\ ctl.pc = "trak"
    /\ ~writer.aborted
    /\ ctl.it <= Len(tracks)
    /\ \E junk \in IF ReadsJunk(tracks[ctl.it]) THEN Junk ELSE {0} :
         writer' = Emit(writer, TrackHeaderOps(tracks[ctl.it], ctl.it, junk))
    /\ ctl' = [ctl EXCEPT !.it = @ + 1]
    /\ UNCHANGED <<tracks, thr, src, hist>>

\* stop(): endBox() of the moov and the end of memory mode (lines 268-270)
EndMoov(w) == [Emit(w, << E >>) EXCEPT !.mWriteMoovBoxToMemory = FALSE]

\* stop(): the staged moov written at mFreeBoxOffset (lines 272-277)
MoovInPlace(w) ==
    Emit([w EXCEPT !.fpos = w.mFreeBoxOffset, !.mOffset = w.mFreeBoxOffset],
         << Chk(w.mMoovBoxBufferOffset + 8 <= w.mEstimatedMoovBoxSize),
            W(w.mMoovBoxBufferOffset, MoovBuffer) >>)

\* the free box written where the free box of start() is
FreeBoxStale(w) ==
    Emit([w EXCEPT !.fpos = w.mFreeBoxOffset],
         << W(4, BoxLen(w.mEstimatedMoovBoxSize - w.mMoovBoxBufferOffset)),
            W(4, Fourcc("free", 0)) >>)

\* stop(): the free box after the moov (lines 279-283)
FreeBox(w) ==
    Emit([w EXCEPT !.mFreeBoxOffset = IF w.mStreamableFile THEN w.mOffset ELSE @,
                   !.fpos = IF w.mStreamableFile THEN w.mOffset
                            ELSE w.mFreeBoxOffset],
         << W(4, BoxLen(w.mEstimatedMoovBoxSize - w.mMoovBoxBufferOffset)),
            W(4, Fourcc("free", 0)) >>)

\* stop(): the staging buffer freed (lines 285-288)
FreeMoovBuffer(w) ==
    IF w.aborted THEN w
    ELSE [w EXCEPT !.mMoovBoxBuffer = EmptyStore, !.mMoovBoxBufferOffset = 0]

\* stop(): lines 270-289: the moov placed, w being the writer after the moov
\* box is ended
PlaceMoov(w) ==
    IF ~w.aborted /\ w.mStreamableFile
    THEN FreeMoovBuffer(FreeBox(MoovInPlace(w)))
    ELSE w

\* stop() returning with mFile left as it is
CloseFileOpen(w) ==
    IF w.aborted THEN w
    ELSE IF w.mBoxes # <<>> THEN [w EXCEPT !.aborted = TRUE]
    ELSE w

\* stop(): lines 291-295
CloseFile(w) ==
    IF w.aborted THEN w
    ELSE IF w.mBoxes # <<>> THEN [w EXCEPT !.aborted = TRUE]
    ELSE [w EXCEPT !.mFile = "NULL"]

\* stop(): lines 268-295: the moov box ended and placed, the file closed
StopFinish ==
    /\ ctl.pc = "trak"
    /\ ~writer.aborted
    /\ ctl.it > Len(tracks)
    /\ \E ended \in {EndMoov(writer)} :
         \E placed \in {PlaceMoov(ended)} : writer' = CloseFile(placed)
    /\ ctl' = [ctl EXCEPT !.pc = "closed"]
    /\ UNCHANGED <<tracks, thr, src, hist>>

----------------------------------------------------------------------------
(* The explored sources and configurations *)

\* a source of media type mime that delivers at most reads buffers, and what
\* those may be
Source(mime, reads, cfgs, data, firsts, gaps, syncs, zero) ==
    [mime |-> mime, left |-> reads, n |-> 0, ts |-> -1,
     cfgs |-> cfgs, data |-> data, firsts |-> firsts, gaps |-> gaps,
     syncs |-> syncs, zero |-> zero]

Plain(len) == [len |-> len, sc |-> -1, pic |-> -1, vol |-> -1]

\* lengths of an AAC codec-config buffer around DefaultMoovBoxSize less the
\* rest of a one-track moov
BigConfigs == {MinBigConfig + 8 * k : k \in 0..MaxBigConfig}

\* a recording of two sources: an AMR-NB audio source with a steady frame
\* rate and an H.263 video source whose frames may be sync frames
Profiles ==
    { Source(MIME_AUDIO_AMR_NB, MaxReads, {}, {Plain(2)}, {0}, {300000},
             {0}, FALSE),
      Source(MIME_VIDEO_H263, MaxReads - 1, {}, {Plain(5)}, {200000}, {600000},
             {0, 1}, FALSE) }

\* the same two sources delivering fewer buffers
LiveProfiles ==
    { Source(MIME_AUDIO_AMR_NB, MaxLiveReads, {}, {Plain(2)}, {0}, {300000},
             {0}, FALSE),
      Source(MIME_VIDEO_H263, MaxLiveReads, {}, {Plain(5)}, {200000}, {600000},
             {1}, FALSE) }

\* interleave duration, size limit, duration limit
Setups == { <<0, 0, 0>>, <<0, 3850, 0>> }

\* A recording of one source, explored in more depth: AMR-NB audio with frames
\* of two sizes, uneven timing and empty buffers; H.263 video; AVC video
\* with and without a codec-config buffer; AAC audio whose codec-config
\* buffer is large enough for the moov to outgrow the reserved range; MPEG-4
\* video with and without a codec-config buffer; AMR-WB audio.
SoloProfiles ==
    { Source(MIME_AUDIO_AMR_NB, MaxSoloReads, {}, {Plain(2), Plain(3)}, {0, 100000},
             {300000, 600500}, {0}, TRUE),
      Source(MIME_VIDEO_H263, MaxSoloReads, {}, {Plain(5)}, {200000},
             {400000, 600000}, {0, 1}, FALSE),
      Source(MIME_VIDEO_AVC, MaxSoloReads,
             {[len |-> 12, sc |-> 0, pic |-> 7, vol |-> -1]},
             {[len |-> 8, sc |-> 0, pic |-> -1, vol |-> -1], Plain(6)},
             {0}, {400000}, {0, 1}, TRUE),
      Source(MIME_AUDIO_AAC, MaxSoloReads,
             {Plain(c) : c \in BigConfigs},
             {Plain(4)}, {0}, {300000}, {0}, FALSE),
      Source(MIME_VIDEO_MPEG4, MaxSoloReads - 1,
             {Plain(20)},
             {[len |-> 9, sc |-> -1, pic |-> -1, vol |-> 3]},
             {0}, {400000}, {0, 1}, FALSE),
      Source(MIME_AUDIO_AMR_WB, MaxSoloReads - 2,
             {}, {Plain(2)}, {0}, {300000}, {0}, FALSE) }

SoloSetups == { <<0, 0, 0>>, <<500000, 3846, 0>>, <<500000, 0, 700000>> }

\* the sizes of mCodecSpecificData explored for every codec that keeps one
CodecConfigs == {ShortConfig, LongConfig - 1, LongConfig}

\* A recording of one source that delivers a codec-config buffer first: AAC
\* audio, MPEG-4 video, H.263 video (which keeps none of it) and AVC video,
\* whose buffer of c - 3 bytes (two parameter sets, each after a start code)
\* makes an AVCDecoderConfigurationRecord of c bytes
CodecProfiles ==
    { Source(MIME_AUDIO_AAC, MaxCodecReads,
             {Plain(c) : c \in CodecConfigs},
             {Plain(4)}, {0}, {300000}, {0}, FALSE),
      Source(MIME_VIDEO_MPEG4, MaxCodecReads,
             {Plain(c) : c \in CodecConfigs},
             {[len |-> 9, sc |-> -1, pic |-> -1, vol |-> 3]},
             {0}, {400000}, {0, 1}, FALSE),
      Source(MIME_VIDEO_H263, MaxCodecReads,
             {Plain(LongConfig)},
             {Plain(5)}, {200000}, {400000}, {0, 1}, FALSE),
      Source(MIME_VIDEO_AVC, MaxCodecReads,
             {[len |-> c - 3, sc |-> 0, pic |-> 7, vol |-> -1] : c \in CodecConfigs},
             {[len |-> 8, sc |-> 0, pic |-> -1, vol |-> -1], Plain(6)},
             {0}, {400000}, {0, 1}, FALSE) }

CodecSetups == { <<0, 0, 0>> }

\* the sources not yet added to the writer
Fresh(ps) == {p \in ps : \A t \in TrackIds : src[t].mime # p.mime}

----------------------------------------------------------------------------
(* Specifications *)

Producer(t) ==
    \/ Read(t)
    \/ SetStart(t)
    \/ GetStart(t)
    \/ Index(t)
    \/ Lock(t)
    \/ FlushSample(t)
    \/ Unlock(t)
    \/ Eos(t)
    \/ Finish(t)

Control ==
    \/ Start
    \/ StartTrack
    \/ StartReturn
    \/ Stop
    \/ TrackStop
    \/ TrackJoin
    \/ WriteMoovHead
    \/ WriteTrackHeader
    \/ StopFinish

\* a recording of up to MaxTracks sources, their producers running concurrently
Next ==
    \/ \E p \in Fresh(Profiles) : AddSourceOf(p)
    \/ \E c \in Setups : Configure(c[1], c[2], c[3])
    \/ Control
    \/ \E t \in TrackIds : Producer(t)

Spec == Init /\ [][Next]_vars

\* the same recordings, and stop() called on a writer whose start() failed
NextTeardown ==
    \/ Next
    \/ StopFailed
    \/ TrackJoinUnstarted

SpecTeardown == Init /\ [][NextTeardown]_vars

\* a recording of one source
NextSolo ==
    \/ \E p \in SoloProfiles : tracks = <<>> /\ AddSourceOf(p)
    \/ \E c \in SoloSetups : Configure(c[1], c[2], c[3])
    \/ Control
    \/ \E t \in TrackIds : Producer(t)

SpecSolo == Init /\ [][NextSolo]_vars

\* a recording of one source that delivers a codec config
NextCodec ==
    \/ \E p \in CodecProfiles : tracks = <<>> /\ AddSourceOf(p)
    \/ \E c \in CodecSetups : Configure(c[1], c[2], c[3])
    \/ Control
    \/ \E t \in TrackIds : Producer(t)

SpecCodec == Init /\ [][NextCodec]_vars

\* The steps of stop() once it is called, and of the unwinding loop of
\* start(): the control thread is scheduled
Stopping ==
    \/ TrackStop
    \/ TrackJoin
    \/ WriteMoovHead
    \/ WriteTrackHeader
    \/ StopFinish

\* a recording of two sources that deliver few buffers, its threads under
\* fair scheduling
NextLive ==
    \/ \E p \in Fresh(LiveProfiles) : AddSourceOf(p)
    \/ Control
    \/ \E t \in TrackIds : Producer(t)

\* Fair scheduling: the control thread inside stop() and every producer
\* thread take a step when they can (a read() returns, a free mLock is
\* granted, a join of an exited thread returns); the calls of the client
\* (addSource, start, stop) are not forced
SpecFair ==
    /\ Init /\ [][NextLive]_vars
    /\ WF_vars(Stopping)
    /\ \A t \in 1..MaxTracks : WF_vars(t \in TrackIds /\ Producer(t))

----------------------------------------------------------------------------
(* Reading the file *)

\* stop() has returned
Closed == ctl.pc = "closed" /\ ~writer.aborted

\* the positions in store m of the fourccs written by beginBox
Fourccs(m) == {p \in DOMAIN m : m[p].kind = "fourcc" /\ m[p].a > 0}

\* the value of the 4-byte field at position p of store m; -1: no such field
Field32(m, p) ==
    IF p \in DOMAIN m /\ m[p].len = 4 /\ m[p].kind \in {"len", "i32"}
    THEN m[p].a ELSE -1

\* the value of the 8-byte field at position p of store m; -1: no such field
Field64(m, p) ==
    IF p \in DOMAIN m /\ m[p].len = 8 /\ m[p].kind = "i64"
    THEN m[p].a ELSE -1

----------------------------------------------------------------------------
(* Properties *)

\* the box whose fourcc is at position p of store m has its length field
\* right before it, holding 0 while the box is open and, once endBox has
\* run, the number of bytes emitted from the placeholder to the endBox call
BoxRight(m, p) ==
    LET box == writer.boxLog[m[p].a]
    IN  /\ m[p].len = 4
        /\ m[p].tag = box.cc
        /\ p - 4 \in DOMAIN m
        /\ m[p - 4].kind = "len"
        /\ Field32(m, p - 4) = (IF box.need = -1 THEN 0 ELSE box.need)
        /\ box.need # -1 => box.need >= 8

\* the fourccs of the boxes begun after the ftyp box: the moov and all in it
MoovFourccs(m) == {p \in Fourccs(m) : m[p].a > 1}

\* the position of the box whose fourcc is at p less the count of bytes
\* emitted before the box was begun
Origin(m, p) == (p - 4) - writer.boxLog[m[p].a].from

\* C1: every box begun with beginBox is in the staging buffer or in the file,
\* once; its length field, right before its fourcc, holds the placeholder 0
\* while the box is open and, once endBox has run, the number of bytes
\* emitted from the placeholder to the endBox call; and the boxes of the
\* moov lie at the distances at which they were emitted, in the staging
\* buffer, in the file, and after a switch from the one to the other.
BoxLengthsRight ==
    LET disk == writer.disk.m
        buf  == writer.mMoovBoxBuffer.m
    IN  /\ \A p \in Fourccs(disk) : BoxRight(disk, p)
        /\ \A p \in Fourccs(buf) : BoxRight(buf, p)
        /\ {disk[p].a : p \in Fourccs(disk)} \cup {buf[p].a : p \in Fourccs(buf)}
             = 1..Len(writer.boxLog)
        /\ Cardinality(Fourccs(disk)) + Cardinality(Fourccs(buf))
             = Len(writer.boxLog)
        /\ Cardinality({Origin(disk, p) : p \in MoovFourccs(disk)}) <= 1
        /\ Cardinality({Origin(buf, p) : p \in MoovFourccs(buf)}) <= 1
        /\ MoovFourccs(disk) = {} \/ MoovFourccs(buf) = {}

\* the file is closed after a switch from memory to file that happened in the
\* placeholder write of a beginBox, three or more boxes being open around it
SpilledInPlaceholder ==
    /\ Closed
    /\ writer.switches = 1
    /\ writer.spilled.by = "len"
    /\ Len(writer.spilled.open) >= 4

----------------------------------------------------------------------------
(* Chunks in the file *)

\* the sizes recorded for samples a .. b of track t, summed
SizeOf(t, a, b) ==
    SumSeq([j \in 1..(b - a + 1) |-> tracks[t].mSampleInfos[a + j - 1].size])

\* the first sample of the c-th chunk track t flushed
FirstOf(t, c) == SumSeq(SubSeq(hist[t].chunks, 1, c - 1)) + 1

\* how many samples of that chunk are written
WrittenOf(t, c) ==
    IF hist[t].written >= FirstOf(t, c) + hist[t].chunks[c] - 1
    THEN hist[t].chunks[c]
    ELSE hist[t].written - (FirstOf(t, c) - 1)

\* the chunks begun in the file: track and chunk number
Chunks ==
    UNION {{<<t, c>> : c \in 1..Len(tracks[t].mChunkOffsets)} : t \in TrackIds}

\* the file range the written samples of a chunk take, from the recorded
\* chunk offset on
ChunkFrom(tc) == tracks[tc[1]].mChunkOffsets[tc[2]]

ChunkTo(tc) ==
    ChunkFrom(tc)
      + SizeOf(tc[1], FirstOf(tc[1], tc[2]),
               FirstOf(tc[1], tc[2]) + WrittenOf(tc[1], tc[2]) - 1)

\* the k-th sample of a chunk is in the file, whole, right after the samples
\* of the chunk before it (after its length prefix, for AVC)
SampleInPlace(tc, k) ==
    LET t    == tc[1]
        seq  == FirstOf(t, tc[2]) + k - 1
        nal  == IF IsAvc(tracks[t].mMeta) THEN 4 ELSE 0
        at   == ChunkFrom(tc) + SizeOf(t, FirstOf(t, tc[2]), seq - 1) + nal
        m    == writer.disk.m
    IN  /\ at \in DOMAIN m
        /\ m[at].kind = "sample"
        /\ m[at].a = t
        /\ m[at].b = seq
        /\ m[at].len + nal = tracks[t].mSampleInfos[seq].size
        /\ nal = 4 => at - 4 \in DOMAIN m /\ m[at - 4].kind = "nal"

\* the end of the mdat payload: of the last sample in the file
MediaEnd ==
    LET m    == writer.disk.m
        ends == {p + m[p].len : p \in {q \in DOMAIN m : m[q].kind = "sample"}}
    IN  IF ends = {} THEN writer.mMdatOffset + 16
        ELSE CHOOSE e \in ends : \A f \in ends : f <= e

\* C2: at most one producer is inside a chunk flush; the samples written of
\* every chunk of every track lie in chunk order in one file range that
\* starts at the chunk's recorded offset and is as long as the sum of their
\* sizes; and the ranges of two distinct chunks do not overlap.
ChunksContiguous ==
    /\ Cardinality({t \in TrackIds : thr[t].pc = "flush"}) <= 1
    /\ \A tc \in Chunks :
         /\ WrittenOf(tc[1], tc[2]) >= 1
         /\ \A k \in 1..WrittenOf(tc[1], tc[2]) : SampleInPlace(tc, k)
    /\ \A tc \in Chunks : \A ud \in Chunks \ {tc} :
         ChunkTo(tc) <= ChunkFrom(ud) \/ ChunkTo(ud) <= ChunkFrom(tc)

\* one producer is in the middle of a chunk of two or more samples while the
\* other waits for the lock to flush a chunk of its own
FlushContended ==
    \E t \in TrackIds : \E u \in TrackIds \ {t} :
        /\ thr[t].pc = "flush"
        /\ thr[t].next = 2
        /\ Len(tracks[t].mChunkSamples) >= 2
        /\ thr[u].pc = "lock"
        /\ Len(tracks[u].mChunkSamples) >= 2

----------------------------------------------------------------------------
(* Index tables in the file *)

\* the box with fourcc cc written for track t: the trak boxes are begun in
\* track order, and the box is begun while the trak of the track is open
TableOf(cc, t) ==
    LET log   == writer.boxLog
        traks == {id \in 1..Len(log) : log[id].cc = "trak"}
        trak  == CHOOSE id \in traks : Cardinality({j \in traks : j <= id}) = t
    IN  CHOOSE id \in 1..Len(log) :
            /\ log[id].cc = cc
            /\ \E i \in 1..Len(log[id].up) : log[id].up[i] = trak

\* the position in the file of the first byte after the fourcc of that box
BodyOf(cc, t) ==
    LET m  == writer.disk.m
        id == TableOf(cc, t)
    IN  (CHOOSE p \in Fourccs(m) : m[p].a = id) + 4

\* the co64 table of track t as the file has it: after version and flags, the
\* entry count and then one 64-bit offset per chunk
Co64InFile(t) ==
    LET at == BodyOf("co64", t)
    IN  [i \in 1..Field32(writer.disk.m, at + 4) |->
            Field64(writer.disk.m, at + 8 + 8 * (i - 1))]

\* C3: after stop() the co64 table of every track in the file is the list of
\* the chunk offsets recorded, the offsets are strictly increasing in chunk
\* order, none is below mdat_offset + 16, the first chunk written is exactly
\* there, and each is strictly less than the end of the mdat payload.
ChunkOffsetsOrdered ==
    Closed =>
      /\ \A t \in TrackIds :
           LET co64 == Co64InFile(t)
           IN  /\ co64 = tracks[t].mChunkOffsets
               /\ \A i \in 1..Len(co64) :
                    /\ co64[i] >= writer.mMdatOffset + 16
                    /\ co64[i] < MediaEnd
                    /\ i > 1 => co64[i - 1] < co64[i]
      /\ Chunks # {} => \E tc \in Chunks : ChunkFrom(tc) = writer.mMdatOffset + 16

\* the file is closed with two tracks of two or more chunks each, a chunk of
\* the second track lying between two chunks of the first
OffsetsInterleaved ==
    /\ Closed
    /\ Len(tracks) = 2
    /\ Len(tracks[1].mChunkOffsets) >= 2
    /\ Len(tracks[2].mChunkOffsets) >= 2
    /\ \E i \in 1..Len(tracks[2].mChunkOffsets) :
         /\ tracks[1].mChunkOffsets[1] < tracks[2].mChunkOffsets[i]
         /\ tracks[2].mChunkOffsets[i] < tracks[1].mChunkOffsets[2]

\* C4: after stop() the mdat box starts at mdat_offset with the length field
\* 1, the fourcc and, at mdat_offset + 8, the 64-bit size: the end of the
\* payload less mdat_offset.  That end is the writer's offset all the time
\* the producers run, up to the patch; the samples and their length
\* prefixes fill the payload, and no box of the moov lies in it.
MdatSizeRight ==
    LET m == writer.disk.m
    IN  /\ ctl.pc \in {"starting", "unwind", "failed", "running", "signal", "join"}
             => writer.mOffset = MediaEnd
        /\ Closed =>
             /\ Field32(m, writer.mMdatOffset) = 1
             /\ m[writer.mMdatOffset + 4].tag = "mdat"
             /\ Field64(m, writer.mMdatOffset + 8) = MediaEnd - writer.mMdatOffset
             /\ SumSeq([t \in TrackIds |->
                          SizeOf(t, 1, Len(tracks[t].mSampleInfos))])
                  = MediaEnd - (writer.mMdatOffset + 16)
             /\ \A p \in Fourccs(m) : p < writer.mMdatOffset \/ p >= MediaEnd

\* the file is closed with samples of two tracks in the mdat box
MdatOfTwoTracks ==
    /\ Closed
    /\ Len(tracks) = 2
    /\ \A t \in TrackIds : Len(tracks[t].mSampleInfos) >= 2
    /\ Field64(writer.disk.m, writer.mMdatOffset + 8) > 16

\* the stsc table of track t as the file has it: three 32-bit fields a row
StscInFile(t) ==
    LET at == BodyOf("stsc", t)
    IN  [i \in 1..Field32(writer.disk.m, at + 4) |->
            StscTableEntry(Field32(writer.disk.m, at + 8 + 12 * (i - 1)),
                           Field32(writer.disk.m, at + 12 + 12 * (i - 1)),
                           Field32(writer.disk.m, at + 16 + 12 * (i - 1)))]

\* the stts table of track t as the file has it: two 32-bit fields a row
SttsInFile(t) ==
    LET at == BodyOf("stts", t)
    IN  [i \in 1..Field32(writer.disk.m, at + 4) |->
            SttsTableEntry(Field32(writer.disk.m, at + 8 + 8 * (i - 1)),
                           Field32(writer.disk.m, at + 12 + 8 * (i - 1)))]

\* the stss table of track t as the file has it
StssInFile(t) ==
    LET at == BodyOf("stss", t)
    IN  [i \in 1..Field32(writer.disk.m, at + 4) |->
            Field32(writer.disk.m, at + 8 + 4 * (i - 1))]

\* the producer of track t has left threadEntry
Exited(t) == thr[t].pc = "exited"

\* the chunks entry i of the stsc table es stands for, of total chunks in all
RunOf(es, i, total) ==
    (IF i < Len(es) THEN es[i + 1].firstChunk ELSE total + 1) - es[i].firstChunk

\* C5: once the producer of a track has exited, the first_chunk values of
\* its stsc entries are strictly increasing from 1, samples_per_chunk times
\* the chunks of the entry's run, summed over the entries, is the number of
\* samples in mSampleInfos, every chunk flushed had the samples_per_chunk of
\* the entry it falls under, and there are as many chunk offsets as chunks;
\* after stop() the file has these stsc entries.
StscSumsRight ==
    \A t \in TrackIds :
        LET es    == tracks[t].mStscTableEntries
            total == Len(hist[t].chunks)
        IN  /\ Exited(t) =>
                 /\ \A i \in 1..Len(es) :
                      /\ es[i].firstChunk >= 1
                      /\ es[i].firstChunk <= total
                      /\ i > 1 => es[i - 1].firstChunk < es[i].firstChunk
                      /\ \A c \in es[i].firstChunk..(es[i].firstChunk
                                                       + RunOf(es, i, total) - 1) :
                           hist[t].chunks[c] = es[i].samplesPerChunk
                 /\ total > 0 => es # <<>> /\ es[1].firstChunk = 1
                 /\ SumSeq([i \in 1..Len(es) |->
                              es[i].samplesPerChunk * RunOf(es, i, total)])
                      = Len(tracks[t].mSampleInfos)
                 /\ Len(tracks[t].mChunkOffsets) = total
                 /\ thr[t].nChunks = total
            /\ Closed => StscInFile(t) = es

\* a producer has exited with an stsc entry that stands for a run of two or
\* more chunks, after an entry for a chunk of another size
StscRunOfTwo ==
    \E t \in TrackIds :
        /\ Exited(t)
        /\ Len(tracks[t].mStscTableEntries) >= 2
        /\ Len(tracks[t].mStscTableEntries) < Len(hist[t].chunks)
        /\ writer.mInterleaveDurationUs > 0

\* C6: once the producer of a track has exited, the sample counts of its
\* stts entries add up to the number of samples in mSampleInfos, whatever
\* that number is.
SttsCountsRight ==
    \A t \in TrackIds :
        Exited(t) =>
            SumSeq([i \in 1..Len(tracks[t].mSttsTableEntries) |->
                      tracks[t].mSttsTableEntries[i].sampleCount])
              = Len(tracks[t].mSampleInfos)

\* a producer has exited without a sample, and its one stts entry counts two
SttsOfNoSample ==
    \E t \in TrackIds :
        /\ Exited(t)
        /\ tracks[t].mSampleInfos = <<>>
        /\ tracks[t].mSttsTableEntries = <<SttsTableEntry(2, 0)>>

\* C7: at every point of the producer loop the stss entries of a track are
\* strictly increasing, each is a sample number from 1 to the number of
\* samples in mSampleInfos, and sample number i is among them exactly when
\* the i-th sample accepted carried a nonzero is_sync_frame; after stop() the
\* file of a video track has these stss entries.
StssRight ==
    \A t \in TrackIds :
        LET es == tracks[t].mStssTableEntries
            n  == Len(tracks[t].mSampleInfos)
        IN  /\ \A i \in 1..Len(es) :
                 /\ es[i] >= 1
                 /\ es[i] <= n
                 /\ i > 1 => es[i - 1] < es[i]
            /\ n <= Len(hist[t].syncs)
            /\ \A k \in 1..n :
                 (\E i \in 1..Len(es) : es[i] = k) <=> hist[t].syncs[k] # 0
            /\ Closed /\ ~IsAudio(tracks[t].mMeta) => StssInFile(t) = es

\* a video track is closed with a sample that is no sync frame between two
\* that are
StssWithGap ==
    \E t \in TrackIds :
        /\ Closed
        /\ ~IsAudio(tracks[t].mMeta)
        /\ \E i \in 1..Len(tracks[t].mStssTableEntries) :
             /\ i > 1
             /\ tracks[t].mStssTableEntries[i] > tracks[t].mStssTableEntries[i - 1] + 1

----------------------------------------------------------------------------
(* The moov and the reserved range *)

\* the bytes emitted for the moov box, once it is ended; the moov is the
\* second box the writer begins, after the ftyp
MoovSize == writer.boxLog[2].need

\* where start() put the free box: mdat_offset less the size reserved
Reserved == writer.mMdatOffset - writer.mEstimatedMoovBoxSize

\* the moov is at the start of the reserved range with a free box after it,
\* the two filling the range up to the mdat box
MoovInReserve ==
    LET m == writer.disk.m
    IN  /\ writer.mStreamableFile
        /\ writer.switches = 0
        /\ Field32(m, Reserved) = MoovSize
        /\ Reserved + 4 \in Fourccs(m)
        /\ m[Reserved + 4].tag = "moov"
        /\ \A p \in MoovFourccs(m) : p >= Reserved + 4 /\ p < Reserved + MoovSize
        /\ Field32(m, Reserved + MoovSize) = writer.mEstimatedMoovBoxSize - MoovSize
        /\ Field32(m, Reserved + MoovSize) >= 8
        /\ Reserved + MoovSize + 4 \in DOMAIN m
        /\ m[Reserved + MoovSize + 4].kind = "fourcc"
        /\ m[Reserved + MoovSize + 4].tag = "free"
        /\ Reserved + MoovSize + Field32(m, Reserved + MoovSize) = writer.mMdatOffset
        /\ Field32(m, writer.mMdatOffset) = 1

\* the bytes of the file from mdat_offset on are after the step what they
\* were before it
TailKept ==
    /\ writer'.mMdatOffset = writer.mMdatOffset
    /\ writer'.disk.top = writer.disk.top
    /\ \A p \in DOMAIN writer.disk.m :
         p >= writer.mMdatOffset =>
           p \in DOMAIN writer'.disk.m /\ writer'.disk.m[p] = writer.disk.m[p]
    /\ \A p \in DOMAIN writer'.disk.m :
         p >= writer.mMdatOffset => p \in DOMAIN writer.disk.m

\* C8: when stop() ends the moov box and the bytes emitted for it plus 8 do
\* not exceed the size reserved, stop() leaves mStreamableFile true, the moov
\* starts where the free box of start() was, a free box of the size reserved
\* less the size of the moov (at least 8) follows it, the two fill the range
\* up to mdat_offset, and the step changes no byte at or after mdat_offset.
MoovPlacedInReserve ==
    [][ ctl.pc = "trak" /\ ctl'.pc = "closed" /\ ~writer'.aborted
          /\ MoovSize' + 8 <= writer.mEstimatedMoovBoxSize
        => MoovInReserve' /\ TailKept ]_vars

\* the file is closed with the moov of two tracks with samples in the
\* reserved range
TwoTracksInReserve ==
    /\ Closed
    /\ Len(tracks) = 2
    /\ \A t \in TrackIds : Len(tracks[t].mChunkOffsets) >= 2
    /\ MoovInReserve

\* the reserved range is as start() wrote it: a free box header of the size
\* reserved and nothing else
ReserveUntouched ==
    LET m == writer.disk.m
    IN  /\ Field32(m, Reserved) = writer.mEstimatedMoovBoxSize
        /\ m[Reserved].kind = "len"
        /\ Reserved + 4 \in DOMAIN m
        /\ m[Reserved + 4].kind = "fourcc"
        /\ m[Reserved + 4].tag = "free"
        /\ \A p \in DOMAIN m : ~(p >= Reserved + 8 /\ p < writer.mMdatOffset)
        /\ writer.mFreeBoxOffset = Reserved

\* C9: the writer leaves memory mode for the file at most once during the
\* emission of the moov, and does so whenever the bytes emitted for the moov
\* plus 8 exceed the size reserved; from the switch on mStreamableFile is
\* false, the staging buffer is empty, the moov starts at the end of the mdat
\* payload with all its boxes after it, and the reserved range is as start()
\* wrote it.
SpillGoesAfterMdat ==
    LET m == writer.disk.m
    IN  /\ writer.switches <= 1
        /\ writer.switches = 1 =>
             /\ ~writer.mStreamableFile
             /\ ~writer.mWriteMoovBoxToMemory
             /\ writer.mMoovBoxBuffer = EmptyStore
             /\ writer.mMoovBoxBufferOffset = 0
             /\ MediaEnd + 4 \in Fourccs(m)
             /\ m[MediaEnd + 4].tag = "moov"
             /\ \A p \in MoovFourccs(m) : p >= MediaEnd + 4
             /\ ReserveUntouched
        /\ Closed /\ Len(writer.boxLog) >= 2 =>
             (writer.switches = 1 <=> MoovSize + 8 > writer.mEstimatedMoovBoxSize)

\* the file is closed after a switch made by the write of the codec-config
\* bytes of a track with samples
SpilledByConfig ==
    /\ Closed
    /\ writer.switches = 1
    /\ writer.spilled.by = "csd"
    /\ \E t \in TrackIds : Len(tracks[t].mChunkOffsets) >= 2

----------------------------------------------------------------------------
(* stop() and the producers *)

\* the size of the mdat box is patched
MdatPatched == Field64(writer.disk.m, writer.mMdatOffset + 8) # -1

\* a byte of the moov is emitted
MoovBegun == Len(writer.boxLog) >= 2

\* C10: a step that patches the size of the mdat box or emits a byte of the
\* moov, or that follows such a step, starts with the producer of every
\* track exited and mReachedEOS set, and changes no track, no producer and
\* no start timestamp: no chunk is flushed, no start timestamp set and no
\* index table appended to from the patch on.
StopAfterProducers ==
    [][ MdatPatched' \/ MoovBegun'
        => /\ \A t \in TrackIds : Exited(t) /\ tracks[t].mReachedEOS
           /\ tracks' = tracks
           /\ thr' = thr
           /\ hist' = hist
           /\ writer'.mStartTimestampUs = writer.mStartTimestampUs ]_vars

\* the size of the mdat box is patched after two producers have each flushed
\* a chunk
PatchedAfterTwo ==
    /\ MdatPatched
    /\ Len(tracks) = 2
    /\ \A t \in TrackIds : Len(tracks[t].mChunkOffsets) >= 1 /\ Exited(t)

----------------------------------------------------------------------------
(* Termination of stop() *)

\* C11: under fair scheduling, once stop() has begun after a start() that
\* returned OK, it completes: the file is closed, the producer of every
\* track has exited with its last chunk flushed and mReachedEOS set, and the
\* writer lock is free.
StopCompletes ==
    (ctl.pc = "signal" /\ ctl.ret = "OK")
      ~> (/\ Closed
          /\ writer.mLock = 0
          /\ \A t \in TrackIds :
                /\ Exited(t)
                /\ tracks[t].mReachedEOS
                /\ tracks[t].mChunkSamples = <<>>
                /\ hist[t].written = Len(tracks[t].mSampleInfos))

\* stop() waits in pthread_join for a producer that waits for the writer
\* lock, which the other producer holds in the middle of a chunk flush
StopWaitsForLock ==
    /\ ctl.pc = "join"
    /\ ctl.caller = "signal"
    /\ thr[ctl.it].pc = "lock"
    /\ \E u \in TrackIds \ {ctl.it} : thr[u].pc = "flush" /\ writer.mLock = u

\* C12: a call of stop() after a stop() that ran to completion finds mFile
\* NULL and returns: it changes no field of the writer (the offset, the box
\* stack, mStreamableFile, the file and its bytes), no track, no producer
\* and no source, and stop() stays completed.
StopAgainChangesNothing ==
    [][ ctl.pc = "closed" /\ ctl'.stops = ctl.stops + 1
        => /\ writer.mFile = "NULL"
           /\ writer.mBoxes = <<>>
           /\ writer' = writer
           /\ tracks' = tracks
           /\ thr' = thr
           /\ src' = src
           /\ hist' = hist
           /\ ctl'.pc = "closed" ]_vars

\* stop() was called again on a closed file with the samples of two tracks
StoppedTwice ==
    /\ Closed
    /\ ctl.stops = 2
    /\ Len(tracks) = 2
    /\ \A t \in TrackIds : Len(tracks[t].mChunkOffsets) >= 1

----------------------------------------------------------------------------
(* start() when a source fails to start *)

\* C13: when start() has returned because the source of track k failed to
\* start, it returned the error, every track before k has mDone set, its
\* producer exited and joined and its source stopped, no producer was ever
\* started for track k or a later one, and no producer is running; start()
\* returns OK only with a producer started for every track.
StartFailureUnwinds ==
    /\ ctl.pc = "failed" =>
          /\ ctl.ret = "ERROR"
          /\ ctl.k \in TrackIds
          /\ tracks[ctl.k].mDone
          /\ \A t \in TrackIds :
                /\ t < ctl.k => /\ tracks[t].mDone
                                /\ Exited(t)
                                /\ tracks[t].mReachedEOS
                                /\ tracks[t].mChunkSamples = <<>>
                                /\ src[t].left = 0
                /\ t >= ctl.k => thr[t].pc = "none" /\ hist[t] = NewHist
          /\ writer.mLock = 0
    /\ ctl.ret = "OK" => \A t \in TrackIds : thr[t].pc # "none"
    /\ ctl.pc = "starting" => \A t \in TrackIds : t >= ctl.it => thr[t].pc = "none"
    /\ ctl.pc = "unwind" => \A t \in TrackIds : t >= ctl.k => thr[t].pc = "none"

\* start() has returned the error of the second source after the producer
\* of the first track flushed a chunk
SecondSourceFailed ==
    /\ ctl.pc = "failed"
    /\ ctl.k = 2
    /\ Len(tracks[1].mChunkOffsets) >= 1

----------------------------------------------------------------------------
(* The start timestamps *)

\* track t has called setStartTimestamp with the timestamp of its first sample
Reported(t) == hist[t].first # -1

\* the earliest of the timestamps reported
EarliestFirst ==
    LET firsts == {hist[t].first : t \in {u \in TrackIds : Reported(u)}}
    IN  CHOOSE e \in firsts : \A f \in firsts : e <= f

\* C14: once a track has called setStartTimestamp, whatever the timestamp
\* it passed (0 included), no step changes the start timestamp of the writer.
StartTimestampFixedByFirst ==
    [][ (\E t \in TrackIds : Reported(t))
        => writer'.mStartTimestampUs = writer.mStartTimestampUs ]_vars

\* a track has reported 0 as the timestamp of its first sample, and the
\* start timestamp of the writer is the later one another track reported
StartTimestampReplaced ==
    \E t \in TrackIds : \E u \in TrackIds :
        /\ hist[t].first = 0
        /\ hist[u].first > 0
        /\ writer.mStartTimestampUs = hist[u].first
        /\ tracks[t].startSet
        /\ tracks[t].mStartTimestampUs = 0

\* C15: once every track has reported its first sample, the start timestamp
\* of the writer is the earliest timestamp reported; the start timestamp a
\* track computes for itself is never negative, and is 0 for a track whose
\* first sample is the earliest.
StartTimestampIsEarliest ==
    /\ (TrackIds # {} /\ \A t \in TrackIds : Reported(t))
         => writer.mStartTimestampUs = EarliestFirst
    /\ \A t \in TrackIds :
         tracks[t].startSet =>
           /\ tracks[t].mStartTimestampUs >= 0
           /\ hist[t].first = EarliestFirst => tracks[t].mStartTimestampUs = 0

\* the track with the earlier first sample computed a negative start
\* timestamp, the other track having reported before it
StartTimestampNegative ==
    \E t \in TrackIds :
        /\ tracks[t].startSet
        /\ tracks[t].mStartTimestampUs < 0
        /\ hist[t].first = EarliestFirst

----------------------------------------------------------------------------
(* Edit lists and durations in the file *)

\* the boxes with fourcc cc begun while the trak of track t was open
BoxesOf(cc, t) ==
    LET log   == writer.boxLog
        traks == {id \in 1..Len(log) : log[id].cc = "trak"}
    IN  {id \in 1..Len(log) :
            /\ log[id].cc = cc
            /\ \E i \in 1..Len(log[id].up) :
                  /\ log[id].up[i] \in traks
                  /\ Cardinality({j \in traks : j <= log[id].up[i]}) = t}

\* the position in the file of the first byte after the fourcc of box id
BodyAt(id) ==
    (CHOOSE p \in Fourccs(writer.disk.m) : writer.disk.m[p].a = id) + 4

\* C16: after stop() the trak of a track holds an edts box only when the
\* track has computed a start timestamp and that is greater than 0 (a track
\* that accepted no sample holds none), the edts holds one elst, and the one
\* entry of the elst has the duration start timestamp / 1000, the media time
\* -1 and the rate 1.
EdtsOnlyWhenPositive ==
    Closed =>
      \A t \in TrackIds :
        /\ BoxesOf("edts", t) # {} =>
              tracks[t].startSet /\ tracks[t].mStartTimestampUs > 0
        /\ Cardinality(BoxesOf("edts", t)) = Cardinality(BoxesOf("elst", t))
        /\ \A id \in BoxesOf("elst", t) :
              /\ Field32(writer.disk.m, BodyAt(id) + 4) = 1
              /\ Field32(writer.disk.m, BodyAt(id) + 8)
                    = CDiv(tracks[t].mStartTimestampUs, 1000)
              /\ writer.disk.m[BodyAt(id) + 12].tag = "elst.mediatime"
              /\ writer.disk.m[BodyAt(id) + 12].a = -1
              /\ Field32(writer.disk.m, BodyAt(id) + 16) = 1

\* the file is closed with an edts box in the trak of a track that accepted
\* no sample
EdtsOfNoSample ==
    /\ Closed
    /\ \E t \in TrackIds :
         /\ tracks[t].mSampleInfos = <<>>
         /\ ~tracks[t].startSet
         /\ BoxesOf("edts", t) # {}

\* the duration of track t as the difference of its greatest timestamp and
\* the timestamp of its first sample
SpanOf(t) ==
    IF tracks[t].mSampleInfos = <<>> THEN 0
    ELSE tracks[t].mMaxTimeStampUs - hist[t].first

RECURSIVE MaxSpan(_)
MaxSpan(t) == IF t = 0 THEN 0 ELSE Max(SpanOf(t), MaxSpan(t - 1))

\* C17: after stop() the duration in the tkhd and in the mdhd of every
\* track is the greatest timestamp of the track less the timestamp of its
\* first sample, divided by 1000, and the duration in the mvhd is the
\* greatest of these differences, divided by 1000.
DurationsFromFirstSample ==
    Closed =>
      /\ Field32(writer.disk.m, BodyAt(3) + 16) = CDiv(MaxSpan(Len(tracks)), 1000)
      /\ \A t \in TrackIds :
            /\ \A id \in BoxesOf("tkhd", t) :
                  Field32(writer.disk.m, BodyAt(id) + 20) = CDiv(SpanOf(t), 1000)
            /\ \A id \in BoxesOf("mdhd", t) :
                  Field32(writer.disk.m, BodyAt(id) + 16) = CDiv(SpanOf(t), 1000)

\* the file is closed with the mvhd holding the greatest timestamp of a
\* track whose first sample has a timestamp greater than 0
DurationIsLastTimestamp ==
    /\ Closed
    /\ \E t \in TrackIds :
         /\ Len(tracks[t].mSampleInfos) >= 2
         /\ hist[t].first > 0
         /\ writer.disk.m[BodyAt(3) + 16].tag = "mvhd.duration"
         /\ Field32(writer.disk.m, BodyAt(3) + 16)
               = CDiv(tracks[t].mMaxTimeStampUs, 1000)
         /\ Field32(writer.disk.m, BodyAt(3) + 16) > CDiv(SpanOf(t), 1000)

----------------------------------------------------------------------------
(* The limits of the file *)

LimitEvents == {"INFO_MAX_FILESIZE_REACHED", "INFO_MAX_DURATION_REACHED"}

\* the producer of track t raises a limit event in this step
RaisesLimit(t) ==
    /\ Len(hist'[t].events) > Len(hist[t].events)
    /\ hist'[t].events[Len(hist'[t].events)] \in LimitEvents

\* the step in which the producer of track t finds a limit exceeded: the
\* size limit is checked first, the sample goes to no table of the track and
\* not to the file, the producer leaves the loop, and no other track and no
\* byte of the file changes
LimitStep(t) ==
    /\ hist[t].events = <<>>
    /\ Len(hist'[t].events) = 1
    /\ hist'[t].events[1] = "INFO_MAX_FILESIZE_REACHED"
          => ExceedsFileSizeLimit(writer, tracks')
    /\ hist'[t].events[1] = "INFO_MAX_DURATION_REACHED"
          => /\ ExceedsFileDurationLimit(writer, tracks')
             /\ Len(tracks) = 1 => ~ExceedsFileSizeLimit(writer, tracks')
    /\ thr[t].pc = "loop"
    /\ thr'[t].pc = "eos"
    /\ tracks'[t] = [tracks[t] EXCEPT !.mEstimatedTrackSizeBytes =
                                          tracks'[t].mEstimatedTrackSizeBytes]
    /\ hist'[t].syncs = hist[t].syncs
    /\ hist'[t].written = hist[t].written
    /\ writer' = writer
    /\ \A u \in TrackIds \ {t} :
          tracks'[u] = tracks[u] /\ thr'[u] = thr[u] /\ hist'[u] = hist[u]

\* the producer of track t, having raised a limit event, has exited with its
\* pending chunk flushed, the closing stts entry appended and mReachedEOS
\* set, the rejected sample in none of its tables and not in the file
LimitExit(t) ==
    /\ tracks[t].mReachedEOS
    /\ tracks[t].mSttsTableEntries # <<>>
    /\ tracks[t].mChunkSamples = <<>>
    /\ hist[t].written = Len(tracks[t].mSampleInfos)
    /\ Len(hist[t].syncs) = Len(tracks[t].mSampleInfos)
    /\ SumSeq(hist[t].chunks) = Len(tracks[t].mSampleInfos)
    /\ Cardinality({p \in DOMAIN writer.disk.m :
                      writer.disk.m[p].kind = "sample" /\ writer.disk.m[p].a = t})
          = Len(tracks[t].mSampleInfos)

----------------------------------------------------------------------------
(* The track without samples *)

\* the producer of track t has exited and accepted no sample
Sampleless(t) == Exited(t) /\ tracks[t].mSampleInfos = <<>>

\* the places of event e in the events of track t
Raised(t, e) == {i \in 1..Len(hist[t].events) : hist[t].events[i] = e}

\* the sample count of the stsz box of track t as the file has it
StszCountInFile(t) == Field32(writer.disk.m, BodyOf("stsz", t) + 8)

\* C19: a track whose producer exits without having accepted a sample raises
\* INFO_STOP_PREMATURELY exactly once, and after stop() its trak is in the
\* file with stts, stsc and co64 tables of no entry and an stsz sample count
\* of 0, no element of the empty mSampleInfos having been read to write it.
EmptyTrakDescribesNothing ==
    \A t \in TrackIds :
        Sampleless(t) =>
            /\ Cardinality(Raised(t, "INFO_STOP_PREMATURELY")) = 1
            /\ Closed =>
                  /\ BoxesOf("stbl", t) # {}
                  /\ SttsInFile(t) = <<>>
                  /\ StscInFile(t) = <<>>
                  /\ Co64InFile(t) = <<>>
                  /\ StszCountInFile(t) = 0
                  /\ ~ReadsEmptyList(tracks[t])

\* stop() has completed with a track without samples: its stts box has the
\* one entry of two samples, and its stsz box a default sample size that was
\* read from the empty list
EmptyTrakCountsTwo ==
    \E t \in TrackIds :
        /\ Sampleless(t)
        /\ Closed
        /\ SttsInFile(t) = <<SttsTableEntry(2, 0)>>
        /\ StszCountInFile(t) = 0
        /\ ReadsEmptyList(tracks[t])
        /\ Field32(writer.disk.m, BodyOf("stsz", t) + 4) \in Junk \ {0}

----------------------------------------------------------------------------
(* The box stack *)

\* the calls a then the calls b: net is the number of boxes begun less the
\* number ended, low the least that number is after any of the calls
Both(a, b) ==
    [net |-> a.net + b.net,
     low |-> IF a.low <= a.net + b.low THEN a.low ELSE a.net + b.low]

\* net and low of the calls ops[i .. j]
RECURSIVE Nest(_, _, _)
Nest(ops, i, j) ==
    IF i > j THEN [net |-> 0, low |-> 0]
    ELSE IF i = j
    THEN (CASE ops[i].op = "begin" -> [net |-> 1, low |-> 0]
            [] ops[i].op = "end"   -> [net |-> -1, low |-> -1]
            [] OTHER               -> [net |-> 0, low |-> 0])
    ELSE Both(Nest(ops, i, (i + j) \div 2), Nest(ops, (i + j) \div 2 + 1, j))

\* the number of boxes the calls ops leave open; -1 if one of them is an
\* endBox call that finds no box of theirs open
Nesting(ops) ==
    LET r == Nest(ops, 1, Len(ops))
    IN  IF r.low < 0 THEN -1 ELSE r.net

\* the boxes begun and not ended
OpenBoxes == {id \in 1..Len(writer.boxLog) : writer.boxLog[id].need = -1}

\* C20: every beginBox is matched by one endBox: mBoxes has an entry for
\* each box begun and not ended; it is empty from the end of the ftyp box in
\* start() until stop() begins the moov, so when start() returns; while the
\* track headers are written only the moov is open, and the calls of each
\* track header (whatever the codec, with and without edts) begin and end
\* the same number of boxes and end none that is not open; the final
\* assertion of stop() finds mBoxes empty; and every box has been ended by
\* the endBox call that found its entry the newest, so the length the file
\* has for it is its own.
BoxesBalanced ==
    /\ ~writer.aborted
    /\ Len(writer.mBoxes) = Cardinality(OpenBoxes)
    /\ ctl.pc \in {"starting", "unwind", "failed", "running", "signal", "join"} =>
          /\ writer.mBoxes = <<>>
          /\ Len(writer.boxLog) = 1
          /\ writer.boxLog[1].cc = "ftyp"
    /\ ctl.pc = "trak" =>
          /\ Len(writer.mBoxes) = 1
          /\ \A id \in OpenBoxes : writer.boxLog[id].cc = "moov"
          /\ Nesting(MoovHeadOps(ctl.max_duration, Len(tracks))) = 1
          /\ ctl.it <= Len(tracks) =>
                \A junk \in Junk :
                    Nesting(TrackHeaderOps(tracks[ctl.it], ctl.it, junk)) = 0
    /\ ctl.pc = "closed" =>
          /\ writer.mBoxes = <<>>
          /\ writer.mFile = "NULL"
          /\ \A p \in Fourccs(writer.disk.m) : BoxRight(writer.disk.m, p)

\* stop() has completed for a file whose moov outgrew the reserved range
\* while a box six levels down in it was open
DeepBoxSpilled ==
    /\ Closed
    /\ writer.switches = 1
    /\ \E id \in 1..Len(writer.boxLog) :
          /\ Len(writer.boxLog[id].up) = 6
          /\ writer.boxLog[id].cc = "esds"
          /\ writer.spilled.open = Append(writer.boxLog[id].up, id)

----------------------------------------------------------------------------
(* The place of the sample table *)

\* the fourccs of the boxes open when box id was begun, outermost first
PathOf(id) ==
    [i \in 1..Len(writer.boxLog[id].up) |-> writer.boxLog[writer.boxLog[id].up[i]].cc]

\* the boxes begun with fourcc cc
BoxesNamed(cc) == {id \in 1..Len(writer.boxLog) : writer.boxLog[id].cc = cc}

\* the fourccs of the boxes begun while box id was the innermost open box
ChildrenOf(id) ==
    {writer.boxLog[k].cc : k \in {j \in 1..Len(writer.boxLog) :
        /\ writer.boxLog[j].up # <<>>
        /\ writer.boxLog[j].up[Len(writer.boxLog[j].up)] = id}}

\* C21: in every trak the stbl box is begun while minf is open: the boxes
\* open when stbl begins are moov, trak, mdia, minf; once the trak is
\* written its minf holds smhd or vmhd, dinf and stbl, and minf is a child
\* of mdia.
StblInsideMinf ==
    /\ \A id \in BoxesNamed("stbl") :
          PathOf(id) = <<"moov", "trak", "mdia", "minf">>
    /\ \A id \in BoxesNamed("minf") :
          /\ PathOf(id) = <<"moov", "trak", "mdia">>
          /\ ChildrenOf(id) \in {{"smhd", "dinf", "stbl"}, {"vmhd", "dinf", "stbl"}}

\* stop() has completed and the file has an stbl box that was begun with
\* minf ended: it is a child of mdia, and minf holds two boxes only
StblBesideMinf ==
    /\ Closed
    /\ \E id \in BoxesNamed("stbl") :
          /\ PathOf(id) = <<"moov", "trak", "mdia">>
          /\ \E p \in Fourccs(writer.disk.m) : writer.disk.m[p].a = id
    /\ \E id \in BoxesNamed("minf") : ChildrenOf(id) = {"smhd", "dinf"}

----------------------------------------------------------------------------
(* The runs of the stsc table *)

\* the places i of the stsc table of track t where entry i and entry i + 1
\* have the same samplesPerChunk
StscRepeats(t) ==
    {i \in 1..(Len(tracks[t].mStscTableEntries) - 1) :
        tracks[t].mStscTableEntries[i].samplesPerChunk
          = tracks[t].mStscTableEntries[i + 1].samplesPerChunk}

\* C22: no two consecutive stsc entries of a track have the same
\* samples_per_chunk, whatever the interleave duration, the final chunk
\* flushed at the end of the stream included.
StscEntriesDiffer == \A t \in TrackIds : StscRepeats(t) = {}

\* with an interleave duration greater than 0, a producer has exited whose
\* final chunk got an stsc entry with the samplesPerChunk of the entry before
StscRepeatsAtEos ==
    \E t \in TrackIds :
        /\ Exited(t)
        /\ writer.mInterleaveDurationUs > 0
        /\ Len(tracks[t].mStscTableEntries) - 1 \in StscRepeats(t)

----------------------------------------------------------------------------
(* The runs of the stts table *)

\* the durations the stts entries es stand for, sample by sample
RECURSIVE Expand(_)
Expand(es) ==
    IF es = <<>> THEN <<>>
    ELSE [i \in 1..es[1].sampleCount |-> es[1].sampleDuration] \o Expand(Tail(es))

\* the timestamp in milliseconds of accepted sample i of track t
StampMs(t, i) == (hist[t].stamps[i] + 500) \div 1000

\* the durations of the n accepted samples of track t: the time from each to
\* the next, and for the last the duration of the one before it, or 0
DurationsOf(t) ==
    LET n == Len(hist[t].stamps)
    IN  [i \in 1..n |-> IF i < n THEN StampMs(t, i + 1) - StampMs(t, i)
                        ELSE IF n >= 2 THEN StampMs(t, n) - StampMs(t, n - 1)
                        ELSE 0]

\* C23: once the producer of a track with n >= 1 accepted samples has
\* exited, its stts table expanded run by run is the sequence of the
\* differences of the millisecond timestamps ((timestamp_us + 500) / 1000) of
\* consecutive samples, followed by the last difference again (0 when
\* n = 1), and no two consecutive entries have the same sample_duration;
\* after stop() the stts box of the file holds this table.
SttsRunsRight ==
    \A t \in TrackIds :
        Exited(t) /\ tracks[t].mSampleInfos # <<>> =>
            /\ Len(hist[t].stamps) = Len(tracks[t].mSampleInfos)
            /\ \A i \in 1..Len(hist[t].stamps) :
                  tracks[t].mSampleInfos[i].timestamp = StampMs(t, i)
            /\ Expand(tracks[t].mSttsTableEntries) = DurationsOf(t)
            /\ \A i \in 1..(Len(tracks[t].mSttsTableEntries) - 1) :
                  tracks[t].mSttsTableEntries[i].sampleDuration
                    # tracks[t].mSttsTableEntries[i + 1].sampleDuration
            /\ Closed => SttsInFile(t) = tracks[t].mSttsTableEntries

\* stop() has completed for a track of four samples whose stts table has
\* three runs, one of them of a duration rounded up to the millisecond
SttsOfThreeRuns ==
    \E t \in TrackIds :
        /\ Closed
        /\ Exited(t)
        /\ Len(tracks[t].mSampleInfos) = 4
        /\ Len(SttsInFile(t)) = 3
        /\ \E i \in 1..3 : SttsInFile(t)[i].sampleDuration = 601

----------------------------------------------------------------------------
(* The chunk anchor *)

\* the producer of track t is between two iterations of its loop, or past it
Settled(t) == thr[t].pc \in {"loop", "eos", "stts", "exited"}

\* the timestamp the chunk of track t is measured from: that of the sample
\* that triggered the last flush, or of the first accepted sample
AnchorOf(t) ==
    IF hist[t].chunks = <<>> THEN hist[t].stamps[1]
    ELSE hist[t].stamps[SumSeq(hist[t].chunks)]

\* C24: with an interleave duration greater than 0, while the producer runs
\* the chunk anchor is the timestamp of the first accepted sample and, after
\* a flush, of the sample that triggered it, and after a sample is processed
\* mChunkSamples holds no sample more than the interleave duration past the
\* anchor, for any timestamps, a first timestamp of 0 included.
ChunkWithinInterleave ==
    \A t \in TrackIds :
        /\ writer.mInterleaveDurationUs > 0
        /\ thr[t].pc = "loop"
        /\ hist[t].stamps # <<>>
        => /\ thr[t].chunkTimestampUs = AnchorOf(t)
           /\ \A i \in 1..Len(tracks[t].mChunkSamples) :
                 hist[t].stamps[tracks[t].mChunkSamples[i].seq] - AnchorOf(t)
                   <= writer.mInterleaveDurationUs

\* a producer whose first sample had the timestamp 0 has processed a second
\* more than the interleave duration later and has flushed no chunk
ChunkPastInterleave ==
    \E t \in TrackIds :
        /\ writer.mInterleaveDurationUs > 0
        /\ thr[t].pc = "loop"
        /\ hist[t].chunks = <<>>
        /\ Len(tracks[t].mChunkSamples) = 2
        /\ hist[t].stamps[1] = 0
        /\ hist[t].stamps[2] > writer.mInterleaveDurationUs
        /\ thr[t].chunkTimestampUs = hist[t].stamps[2]

----------------------------------------------------------------------------
(* Codec configuration taken from the first samples *)

\* no buffer that track t has read was flagged as codec configuration
Unflagged(t) == \A i \in 1..Len(hist[t].reads) : ~hist[t].reads[i].cfg

\* the producer of track t has raised a limit event
HitLimit(t) == \E i \in 1..Len(hist[t].events) : hist[t].events[i] \in LimitEvents

\* the number of samples of track t that have got to mSampleInfos
Indexed(t) == Len(tracks[t].mSampleInfos)

\* the size recorded for an H.264 sample read as buffer b
AvcSizeOf(b) == IF b.sc = 0 /\ b.len >= 4 THEN b.len ELSE b.len + 4

\* C25: on an H.264 track where no buffer is flagged as codec configuration,
\* the first two buffers of length > 0 are consumed as codec configuration
\* (each after a start code of four bytes, parsed once after the second,
\* neither in mSampleInfos nor in the file), mGotAllCodecSpecificData is
\* true from the second on, and every later buffer of length > 0 is accepted
\* as a sample unless a limit stops the producer; buffers of length 0 do not
\* count.
AvcConfigFromTwo ==
    \A t \in TrackIds :
        IsAvc(src[t].mime) /\ Unflagged(t) =>
            LET k == Len(hist[t].reads)
            IN  /\ thr[t].count = k
                /\ src[t].n = k + thr[t].nZeroLengthFrames
                /\ tracks[t].mGotAllCodecSpecificData <=> k >= 2
                /\ k = 0 => tracks[t].mCodecSpecificData = "NULL"
                /\ k = 1 =>
                      /\ tracks[t].mCodecSpecificData = "raw"
                      /\ tracks[t].mCodecSpecificDataSize = 4 + hist[t].reads[1].len
                /\ k >= 2 =>
                      /\ tracks[t].mCodecSpecificData = "avcC"
                      /\ tracks[t].mCodecSpecificDataSize
                            = hist[t].reads[1].len + hist[t].reads[2].len + 11
                /\ Len(hist[t].stamps)
                      = (IF k <= 2 THEN 0 ELSE k - 2) - (IF HitLimit(t) THEN 1 ELSE 0)
                /\ \A i \in 1..Indexed(t) :
                      tracks[t].mSampleInfos[i].size = AvcSizeOf(hist[t].reads[i + 2])
                /\ hist[t].written <= Indexed(t)
                /\ Indexed(t) <= Len(hist[t].stamps)

\* an H.264 producer has exited having read three unflagged buffers of
\* length greater than 0 and one of length 0: the third of the three is the
\* one sample in the file
AvcThirdIsFirstSample ==
    \E t \in TrackIds :
        /\ IsAvc(src[t].mime)
        /\ Unflagged(t)
        /\ Exited(t)
        /\ Len(hist[t].reads) = 3
        /\ thr[t].nZeroLengthFrames = 1
        /\ Indexed(t) = 1
        /\ hist[t].written = 1

\* C26: the VOL start-code fallback is applied on MPEG-4 Part 2 video tracks
\* only: on a track of AAC, AMR-NB, AMR-WB or H.263 where no buffer is flagged
\* as codec configuration, every buffer of length > 0 is accepted whole as a
\* sample unless a limit stops the producer, and no codec configuration is
\* taken from any.
VolFallbackOnMpeg4Only ==
    \A t \in TrackIds :
        /\ src[t].mime \in {MIME_AUDIO_AAC, MIME_AUDIO_AMR_NB, MIME_AUDIO_AMR_WB,
                             MIME_VIDEO_H263}
        /\ Unflagged(t)
        => /\ tracks[t].mCodecSpecificData = "NULL"
           /\ Len(hist[t].stamps)
                 = Len(hist[t].reads) - (IF HitLimit(t) THEN 1 ELSE 0)
           /\ \A i \in 1..Indexed(t) :
                 tracks[t].mSampleInfos[i].size = hist[t].reads[i].len

\* an AAC producer has exited having read two unflagged buffers: the first
\* was taken whole as codec configuration, the second is the one sample
AacFirstSampleDropped ==
    \E t \in TrackIds :
        /\ src[t].mime = MIME_AUDIO_AAC
        /\ Unflagged(t)
        /\ Exited(t)
        /\ Len(hist[t].reads) = 2
        /\ Indexed(t) = 1
        /\ tracks[t].mCodecSpecificData = "copy"
        /\ tracks[t].mCodecSpecificDataSize = hist[t].reads[1].len
        /\ ~tracks[t].mGotAllCodecSpecificData

----------------------------------------------------------------------------
(* The estimate of the track size *)

\* the sum of the size fields of mSampleInfos of track t
SizesOf(t) ==
    SumSeq([i \in 1..Len(tracks[t].mSampleInfos) |-> tracks[t].mSampleInfos[i].size])

\* C27: between two iterations of the producer loop and once the producer
\* has exited, for whatever reason, mEstimatedTrackSizeBytes of a track is
\* the sum of the sizes of the samples in its mSampleInfos.
EstimateIsAcceptedBytes ==
    \A t \in TrackIds :
        Settled(t) => tracks[t].mEstimatedTrackSizeBytes = SizesOf(t)

\* a producer has exited on a limit with a sample accepted, and its estimate
\* is greater than the bytes of the samples it accepted
EstimateCountsRejected ==
    \E t \in TrackIds :
        /\ Exited(t)
        /\ HitLimit(t)
        /\ Indexed(t) >= 1
        /\ tracks[t].mEstimatedTrackSizeBytes > SizesOf(t)

----------------------------------------------------------------------------
(* Buffers and copies *)

\* the deep copies the producer of track t has made and not released
LiveCopies(t) == thr[t].copies - thr[t].freed

\* C28: every buffer that read() returned is released within the iteration
\* that read it; between iterations and while a chunk is written every deep
\* copy is in mChunkSamples or released; and once the producer has exited,
\* for whatever reason, mChunkSamples is empty and no copy is left
\* unreleased.
CopiesAllReleased ==
    \A t \in TrackIds :
        /\ thr[t].pc # "none" => thr[t].released = src[t].n
        /\ Settled(t) \/ thr[t].pc \in {"lock", "flush"} =>
              LiveCopies(t) = Len(tracks[t].mChunkSamples)
        /\ Exited(t) => tracks[t].mChunkSamples = <<>> /\ LiveCopies(t) = 0

\* a producer has exited on a limit with its pending chunk flushed and
\* released, and the copy of the sample it rejected is still unreleased
RejectedCopyLeft ==
    \E t \in TrackIds :
        /\ Exited(t)
        /\ HitLimit(t)
        /\ thr[t].freed >= 1
        /\ tracks[t].mChunkSamples = <<>>
        /\ LiveCopies(t) = 1

----------------------------------------------------------------------------
(* The offset of the writer *)

\* the sizes mSampleInfos has for the samples track t has written to the file
FlushedBytes(t) ==
    SumSeq([i \in 1..hist[t].written |-> tracks[t].mSampleInfos[i].size])

----------------------------------------------------------------------------
(* The size limit, once reached *)

\* a producer has found exceedsFileSizeLimit() true
SizeLimitSeen ==
    \E t \in TrackIds : Raised(t, "INFO_MAX_FILESIZE_REACHED") # {}

\* what exceedsFileSizeLimit() compares with the limit
EstimateOf(w, trs) ==
    w.mEstimatedMoovBoxSize
      + SumSeq([t \in 1..Len(trs) |-> trs[t].mEstimatedTrackSizeBytes])

\* the estimate never decreases while the producers run, so once
\* exceedsFileSizeLimit() is true it stays true
EstimateGrows ==
    /\ ctl.pc \in {"running", "signal", "join"} =>
          EstimateOf(writer', tracks') >= EstimateOf(writer, tracks)
    /\ SizeLimitSeen' => ExceedsFileSizeLimit(writer', tracks')

\* C30: once a producer has found exceedsFileSizeLimit() true it stays true
\* for every later evaluation by any producer (the estimate never decreases
\* while the producers run), so from then on no producer accepts another
\* sample for its mSampleInfos and the file: each appends and writes at most
\* the samples it had accepted by then.
NoneAcceptedAfterSizeLimit ==
    [][ /\ EstimateGrows
        /\ SizeLimitSeen =>
              \A t \in TrackIds :
                  /\ hist'[t].stamps = hist[t].stamps
                  /\ Indexed(t)' <= Len(hist[t].stamps)
                  /\ hist'[t].written <= Len(hist[t].stamps) ]_vars

\* both producers have found the size limit exceeded, each with a sample
\* accepted before, and have exited
BothSeeSizeLimit ==
    \E t \in TrackIds : \E u \in TrackIds \ {t} :
        /\ Raised(t, "INFO_MAX_FILESIZE_REACHED") # {}
        /\ Raised(u, "INFO_MAX_FILESIZE_REACHED") # {}
        /\ Indexed(t) >= 1
        /\ Indexed(u) >= 1
        /\ Exited(t) /\ Exited(u)

----------------------------------------------------------------------------
(* Track::stop() and the tracks that were never started *)

\* the producer thread of track t was created (pthread_create, line 561)
Started(t) == thr[t].pc # "none"

\* C31: Track::stop() calls pthread_join and mSource->stop() only for a track
\* whose producer thread was started and was not joined before: no track is
\* joined or has its source stopped more than once, and a track that was
\* never started, as are those after the track at which start() failed,
\* is not joined and its source is not stopped
JoinsOnlyStarted ==
    \A t \in TrackIds :
        /\ hist[t].joins <= IF Started(t) THEN 1 ELSE 0
        /\ hist[t].sourceStops <= IF Started(t) THEN 1 ELSE 0

\* stop() after start() failed at the first track has joined the second
\* track, which was never started, and stopped its source
UnstartedSourceStopped ==
    /\ Len(tracks) = 2
    /\ ctl.ret = "ERROR"
    /\ ctl.k = 1
    /\ ~Started(2)
    /\ hist[2].joins = 1
    /\ hist[2].sourceStops = 1

----------------------------------------------------------------------------
(* The esds lengths and the assertion of writeTrackHeader *)

\* the bound of the assertion (line 1203): a descriptor length of one byte
EsdsLengthLimit == 128

\* the positions in store m of the descriptor lengths of an esds box
EsdsLengths(m) == {p \in DOMAIN m : m[p].kind = "i8" /\ m[p].tag = "esds.len"}

\* the process died in an assertion made while the sample entry cc was the
\* newest open box, so after its fields and before the box inside it
AbortedIn(cc) ==
    /\ writer.aborted
    /\ writer.openIds # <<>>
    /\ writer.boxLog[writer.openIds[Len(writer.openIds)]].cc = cc

\* C32: the assertion 23 + mCodecSpecificDataSize < 128 of writeTrackHeader
\* guards the tracks that write an esds box (AAC audio, MPEG-4 video) and
\* only those: every descriptor length byte of an esds box, in the moov
\* staging buffer or in the file, is below 128, and the header of an H.263
\* or H.264 track never dies in the assertion, whatever the size of its
\* codec config
EsdsLengthsAsserted ==
    /\ \A p \in EsdsLengths(writer.mMoovBoxBuffer.m) :
          writer.mMoovBoxBuffer.m[p].a < EsdsLengthLimit
    /\ \A p \in EsdsLengths(writer.disk.m) :
          writer.disk.m[p].a < EsdsLengthLimit
    /\ ~AbortedIn("s263")
    /\ ~AbortedIn("avc1")

\* stop() died writing the header of an H.264 track whose codec config has
\* LongConfig bytes: the avc1 box is open and no avcC box was begun
AvcHeaderAborted ==
    /\ ctl.pc = "trak"
    /\ AbortedIn("avc1")
    /\ tracks[1].mMeta = MIME_VIDEO_AVC
    /\ tracks[1].mCodecSpecificDataSize = LongConfig
    /\ BoxesNamed("avcC") = {}

====
